---- MODULE Spec2Model ----
(***************************************************************************)
(* Model of the SolFramingWeb core:                                        *)
(*   - the frame geometry engine, generateFrameSvg (src/lib/svgFrame.ts);  *)
(*   - the primitive chainer, chainPrimitives (the DXF conversion route);  *)
(*   - the DXF conversion route itself: toInchesScale, parseDxf,           *)
(*     toFrameSpecFromDxf and the POST handler writing the profile store;  *)
(*   - the profile loaders, loadProfiles and loadProfilesSync              *)
(*     (src/lib/profiles.ts).                                              *)
(*                                                                         *)
(* Numbers.  The engine's lengths are JavaScript numbers.  Here a length   *)
(* is an integer count of 1e-5 (one decimal digit more than the engine's   *)
(* output PRECISION of 4 digits), so that round() is a real rounding and   *)
(* not the identity.  Angles are integers in micro-radians.  Chainer       *)
(* coordinates are integer counts of 0.5e-5, so that the chainer's         *)
(* tolerance eps = 1e-5 is two units.  Binary floating-point rounding      *)
(* noise below these resolutions is not modelled.                          *)
(***************************************************************************)
EXTENDS Integers, Sequences, FiniteSets, TLC

VARIABLES
  fCalls,     \* generateFrameSvg calls still to be made, in order
  fResults,   \* the calls made so far, each with what it produced
  cPrims,     \* chainPrimitives: the input list prims
  cUsed,      \* chainPrimitives: the used[] flags
  cCurr,      \* chainPrimitives: curr
  cOut,       \* chainPrimitives: out
  cPc,        \* chainPrimitives: "idle", "loop" (in while(true)), "done"
  uCalls,     \* toInchesScale calls still to be made, in order
  uResults,   \* the toInchesScale calls made so far, each with its result
  reqs,       \* the POST requests: form, position in the handler, locals, response
  store,      \* the profile store directory: a set of files, name and content
  dirMade,    \* whether fs.mkdir has run on the store directory
  lCalls,     \* loader calls still to be made, in order
  lOut,       \* the loader calls made so far, each with its outcome
  selector,   \* FrameProfileSelector: its state and what its last render produced
  arcCalls,   \* chooseArcCenter calls still to be made, in order
  arcResults  \* the chooseArcCenter calls made so far, each with its results

vars == <<fCalls, fResults, cPrims, cUsed, cCurr, cOut, cPc,
          uCalls, uResults, reqs, store, dirMade, lCalls, lOut,
          selector, arcCalls, arcResults>>
frameVars == <<fCalls, fResults>>
chainVars == <<cPrims, cUsed, cCurr, cOut, cPc>>
unitVars == <<uCalls, uResults>>
routeVars == <<reqs, store, dirMade>>
loadVars == <<lCalls, lOut>>
selVars == <<selector>>
arcVars == <<arcCalls, arcResults>>

----------------------------------------------------------------------------
(* Arithmetic helpers *)

Abs(v) == IF v < 0 THEN -v ELSE v

RECURSIVE Pow10(_)
Pow10(k) == IF k = 0 THEN 1 ELSE 10 * Pow10(k - 1)

\* floor(n * 10^k / d) for 0 <= n < d, by long division (no large products).
RECURSIVE FracDigits(_, _, _)
FracDigits(n, d, k) ==
  IF k = 0 THEN 0
  ELSE ((n * 10) \div d) * Pow10(k - 1) + FracDigits((n * 10) % d, d, k - 1)

\* An ascending sequence of the members of a finite set of integers:
\* Array.from(set).sort((a, b) => a - b).
RECURSIVE SortedSeq(_)
SortedSeq(S) ==
  IF S = {} THEN <<>>
  ELSE LET m == CHOOSE a \in S : \A b \in S : a <= b
       IN <<m>> \o SortedSeq(S \ {m})

----------------------------------------------------------------------------
(* svgFrame.ts: numeric helpers *)

PRECISION == 4

\* One 10^-PRECISION step, in length units of 1e-5.
Step == Pow10(5 - PRECISION)

\* round(value) = Number(value.toFixed(PRECISION)): the nearest multiple of
\* 10^-PRECISION, a tie going away from zero.
round(value) ==
  IF value < 0 THEN -(((-value) + Step \div 2) \div Step) * Step
  ELSE ((value + Step \div 2) \div Step) * Step

\* Math.PI in micro-radians.
PiMicro == 3141593

\* atan(n/d) in micro-radians for 0 <= n <= d, d > 0.  Exact at 0 and at
\* pi/4; the small-angle value n/d below 0.01 (error < 1 micro-radian); a
\* quadratic interpolation elsewhere (error < 4 milli-radians), which only
\* ever separates directions that are far apart.
AtanRatio(n, d) ==
  IF n = 0 THEN 0
  ELSE IF n = d THEN PiMicro \div 4
  ELSE LET ppm == FracDigits(n, d, 6)
       IN IF ppm < 10000 THEN ppm
          ELSE LET t == ppm \div 1000
               IN (785398 * t) \div 1000 + (273 * t * (1000 - t)) \div 1000

\* Math.atan2(y, x), in micro-radians, in (-pi, pi].
Atan2(y, x) ==
  LET ax == Abs(x)
      ay == Abs(y)
      a  == IF ax = 0 /\ ay = 0 THEN 0
            ELSE IF ay <= ax THEN AtanRatio(ay, ax)
            ELSE PiMicro \div 2 - AtanRatio(ax, ay)
  IN IF x >= 0 THEN (IF y >= 0 THEN a ELSE -a)
     ELSE (IF y >= 0 THEN PiMicro - a ELSE a - PiMicro)

angleOf(vector) == Atan2(vector.y, vector.x)

----------------------------------------------------------------------------
(* svgFrame.ts: the contour walk *)

\* An optional value: absent (undefined) or present with a value.
Undefined == [def |-> FALSE]
Some(v) == [def |-> TRUE, v |-> v]
OrElse(opt, dflt) == IF opt.def THEN opt.v ELSE dflt

Pt(x, y) == [x |-> x, y |-> y]

\* Segment constructors.  A line has an optional `to` and optional dx, dy;
\* an arc has `to`, radius and an optional clockwise flag.
LineTo(x, y) == [kind |-> "line", to |-> Some(Pt(x, y)), dx |-> Undefined, dy |-> Undefined]
LineBy(dx, dy) == [kind |-> "line", to |-> Undefined, dx |-> Some(dx), dy |-> Some(dy)]
ArcTo(x, y, r, cw) == [kind |-> "arc", to |-> Pt(x, y), radius |-> r, clockwise |-> cw]

resolveEndPoint(segment, start) ==
  IF segment.kind = "line"
  THEN LET dx == IF segment.to.def THEN segment.to.v.x ELSE OrElse(segment.dx, 0)
           dy == IF segment.to.def THEN segment.to.v.y ELSE OrElse(segment.dy, 0)
       IN Pt(start.x + dx, start.y + dy)
  ELSE Pt(start.x + segment.to.x, start.y + segment.to.y)

\* The cursor after the first n segments.
RECURSIVE cursorAfter(_, _)
cursorAfter(profile, n) ==
  IF n = 0 THEN OrElse(profile.origin, Pt(0, 0))
  ELSE resolveEndPoint(profile.segments[n], cursorAfter(profile, n - 1))

computeSegments(profile) ==
  [i \in 1..Len(profile.segments) |->
     LET cursor == cursorAfter(profile, i - 1)
         end    == resolveEndPoint(profile.segments[i], cursor)
     IN [start |-> cursor, end |-> end,
         vector |-> Pt(end.x - cursor.x, end.y - cursor.y),
         segment |-> profile.segments[i]]]

\* An alternative that looks at the kinds only.
describeTransitionReasonKindOnly(prev, next, prevAngle, nextAngle) ==
  IF prev.kind = "line" /\ next.kind = "line" THEN "coplanar-line"
  ELSE IF prev.kind = "line" /\ next.kind = "arc" THEN "line-to-arc"
  ELSE IF prev.kind = "arc" /\ next.kind = "line" THEN "arc-to-line"
  ELSE "arc-transition"

describeTransitionReason(prev, next, prevAngle, nextAngle) ==
  IF prev.kind = "line" /\ next.kind = "line"
  THEN (IF Abs(prevAngle - nextAngle) < 1000 THEN "coplanar-line" ELSE "line-to-line")
  ELSE IF prev.kind = "line" /\ next.kind = "arc" THEN "line-to-arc"
  ELSE IF prev.kind = "arc" /\ next.kind = "line" THEN "arc-to-line"
  ELSE "arc-transition"

----------------------------------------------------------------------------
(* svgFrame.ts: generateFrameSvg *)

\* The guard of generateFrameSvg.
paintingRejectedStrict(painting) == painting.width < 0 \/ painting.height < 0

paintingRejected(painting) == painting.width <= 0 \/ painting.height <= 0

\* The transition reason at the boundary after segment index (1-based),
\* for index < Len(segments).
reasonAt(segments, index) ==
  describeTransitionReason(segments[index].segment, segments[index + 1].segment,
                           angleOf(segments[index].vector),
                           angleOf(segments[index + 1].vector))

\* `at`, the value added to eventOffsetSet for a direction-changing boundary.
eventAtRaw(segment) == Abs(segment.end.x)

eventAt(segment) == round(Abs(segment.end.x))

\* `new Set<number>()`: the set each call starts from.  The alternative is a
\* set that lives at module scope and keeps the offsets of earlier calls.
sharedEventOffsetSet ==
  UNION {{fResults[k].out.rectangles[j].offset :
            j \in 1..Len(fResults[k].out.rectangles)} :
         k \in {k \in 1..Len(fResults) : ~fResults[k].out.threw}}

newEventOffsetSet == {}

\* An alternative that also takes the end of every segment, the last one
\* included, whatever the transition.
eventOffsetSetWithEnds(segments) ==
  {eventAt(segments[i]) : i \in 1..Len(segments)}

eventOffsetSetOf(segments) ==
  newEventOffsetSet \cup
  {eventAt(segments[i]) :
     i \in {i \in 1..(Len(segments) - 1) : reasonAt(segments, i) # "coplanar-line"}}

\* An alternative to the sorted, de-duplicated list of event offsets.
eventOffsetsDescending(segments) ==
  LET asc == SortedSeq(eventOffsetSetOf(segments))
  IN [i \in 1..Len(asc) |-> asc[Len(asc) + 1 - i]]

eventOffsetsOf(segments) == SortedSeq(eventOffsetSetOf(segments))

\* One entry of `rectangles`.
frameRectangleSwapped(painting, offset) ==
  [offset |-> offset,
   width  |-> round(painting.width + offset * 2),
   height |-> round(painting.width + offset * 2)]

frameRectangle(painting, offset) ==
  [offset |-> offset,
   width  |-> round(painting.width + offset * 2),
   height |-> round(painting.height + offset * 2)]

\* round(v / 2) for an integer v: halving can leave half a unit, which never
\* decides a rounding to a multiple of Step (Step is even).
roundHalf(v) == IF v < 0 THEN -round((-v) \div 2) ELSE round(v \div 2)

\* rectElement: the <rect> element, as its attribute record.
rectElement(width, height, attributes) ==
  [x |-> -roundHalf(width), y |-> -roundHalf(height),
   width |-> round(width), height |-> round(height), attrs |-> attributes]

\* The direction-change notes reported next to the rectangles, one for each
\* boundary that is not a coplanar continuation.
highlightBandsPerTransition(segments) ==
  LET noted == {i \in 1..(Len(segments) - 1) : reasonAt(segments, i) # "coplanar-line"}
  IN [k \in 1..Cardinality(noted) |->
        LET i == CHOOSE j \in noted : Cardinality({h \in noted : h < j}) = k - 1
        IN [fromOffset |-> eventAt(segments[i]),
            toOffset |-> eventAt(segments[i + 1]),
            reason |-> reasonAt(segments, i)]]

\* const highlightBands: HighlightBand[] = []; nothing is pushed to it.
highlightBandsOf(segments) == <<>>

\* The view box, the shapes and the returned record, from the rectangles.
frameOfRectangles(painting, edgePad, eventOffsets, rectangles, highlightBands) ==
  LET maxOffset    == IF Len(eventOffsets) > 0 THEN eventOffsets[Len(eventOffsets)] ELSE 0
      outerWidth   == painting.width + maxOffset * 2
      outerHeight  == painting.height + maxOffset * 2
      viewBox      == <<-roundHalf(outerWidth + edgePad * 2),
                        -roundHalf(outerHeight + edgePad * 2),
                        round(outerWidth + edgePad * 2),
                        round(outerHeight + edgePad * 2)>>
      first        == rectangles[1].offset
      last         == rectangles[Len(rectangles)].offset
      eventShapes  ==
        [i \in 1..Len(rectangles) |->
           LET rect   == rectangles[i]
               isEdge == rect.offset = first \/ rect.offset = last
           IN rectElement(rect.width, rect.height,
                [fill |-> "none",
                 stroke |-> IF isEdge THEN "#000000" ELSE "#9ca3af",
                 strokeWidth |-> IF isEdge THEN 2 ELSE 1,
                 role |-> "event",
                 dataEventOffset |-> rect.offset])]
      paintingShape ==
        rectElement(painting.width, painting.height,
          [fill |-> "#ffffff", stroke |-> "#000000", strokeWidth |-> 1,
           role |-> "painting", dataEventOffset |-> 0])
  IN [threw |-> FALSE,
      svg |-> [viewBox |-> viewBox, shapes |-> Append(eventShapes, paintingShape)],
      viewBox |-> viewBox,
      rectangles |-> rectangles,
      highlightBands |-> highlightBands]

\* The event offsets, the rectangles and the bands, from the walked segments.
frameOfSegments(painting, edgePad, segments, eventOffsets) ==
  frameOfRectangles(painting, edgePad, eventOffsets,
    [i \in 1..Len(eventOffsets) |-> frameRectangle(painting, eventOffsets[i])],
    highlightBandsOf(segments))

\* Default edgePad 0.02, in length units.
DefaultEdgePad == 2000
\* Default marginRatio 0.12, in hundredths.
DefaultMarginRatio == 12

generateFrameSvg(painting, profile, options) ==
  IF paintingRejected(painting)
  THEN [threw |-> TRUE, error |-> "Painting dimensions must be positive numbers."]
  ELSE
    LET marginRatio  == IF options.def THEN OrElse(options.v.marginRatio, DefaultMarginRatio)
                        ELSE DefaultMarginRatio
        edgePad      == IF options.def THEN OrElse(options.v.edgePad, DefaultEdgePad)
                        ELSE DefaultEdgePad
    IN frameOfSegments(painting, edgePad, computeSegments(profile),
                       eventOffsetsOf(computeSegments(profile)))

----------------------------------------------------------------------------
(* Calls of generateFrameSvg *)

MaxSegs == 3
MaxCalls == 3

\* n whole length units (n.00000).
Whole(n) == n * 100000

\* Contour segments the calls are built from: a 50-wide face step, a 30-deep
\* rise, a collinear continuation given as dx/dy, a step back towards the
\* painting, an arc, and two slanted lines a few 1e-5 wide.
FrameSegments ==
  { LineTo(Whole(50), 0),
    LineTo(0, Whole(30)),
    LineBy(Whole(30), 0),
    LineTo(-Whole(50), 0),
    ArcTo(Whole(30), Whole(30), Whole(30), Some(TRUE)),
    LineTo(4, 10),
    LineTo(2, -10) }

FrameOrigins == { Undefined, Some(Pt(2, 0)) }

RECURSIVE SeqsUpTo(_, _)
SeqsUpTo(S, n) ==
  IF n = 0 THEN {<<>>}
  ELSE LET shorter == SeqsUpTo(S, n - 1)
       IN shorter \cup {Append(q, e) : q \in {r \in shorter : Len(r) = n - 1}, e \in S}

FrameContours ==
  {[origin |-> o, segments |-> q] : o \in FrameOrigins, q \in SeqsUpTo(FrameSegments, MaxSegs)}

\* 460 x 610; 460 mm x 610 mm in inches (18.11024 x 24.01575); and the
\* degenerate sizes 0 x 10, 10 x 0 and -1 x 10.
FramePaintings ==
  { [width |-> Whole(460), height |-> Whole(610)],
    [width |-> 1811024, height |-> 2401575],
    [width |-> 0, height |-> Whole(10)],
    [width |-> Whole(10), height |-> 0],
    [width |-> -Whole(1), height |-> Whole(10)] }

FrameOptions ==
  { Undefined,
    Some([marginRatio |-> Some(50), edgePad |-> Some(0)]) }

FrameInputs ==
  {[painting |-> p, profile |-> c, options |-> o] :
     p \in FramePaintings, c \in FrameContours, o \in FrameOptions}

\* The inputs of the repeated-call runs: two paintings and three contours.
RepeatInputs ==
  {[painting |-> p, profile |-> [origin |-> Undefined, segments |-> q], options |-> Undefined] :
     p \in { [width |-> Whole(460), height |-> Whole(610)],
             [width |-> 1811024, height |-> 2401575] },
     q \in { <<LineTo(Whole(50), 0), LineTo(0, Whole(30))>>,
             <<LineTo(0, Whole(30)), LineTo(Whole(50), 0), LineTo(0, Whole(30))>>,
             <<LineTo(4, 10), LineTo(2, -10), LineTo(4, 10)>> }}

ChainIdle ==
  /\ cPrims = <<>>
  /\ cUsed = <<>>
  /\ cCurr = Undefined
  /\ cOut = <<>>
  /\ cPc = "idle"

FrameIdle ==
  /\ fCalls = <<>>
  /\ fResults = <<>>

UnitsIdle ==
  /\ uCalls = <<>>
  /\ uResults = <<>>

\* No request, an empty store directory that does not exist yet.
RouteIdle ==
  /\ reqs = <<>>
  /\ store = {}
  /\ dirMade = FALSE

LoaderIdle ==
  /\ lCalls = <<>>
  /\ lOut = <<>>

\* The selector component is not mounted.
SelectorIdle == selector = Undefined

ArcIdle ==
  /\ arcCalls = <<>>
  /\ arcResults = <<>>

\* One call: the caller's painting, contour and options objects go in, the
\* call reads them, and the record keeps them as they are after the call.
CallGenerateFrameSvg ==
  /\ fCalls # <<>>
  /\ LET a == Head(fCalls)
     IN fResults' = Append(fResults,
                      [painting |-> a.painting,
                       profile |-> a.profile,
                       options |-> a.options,
                       profileAfter |-> a.profile,
                       out |-> generateFrameSvg(a.painting, a.profile, a.options)])
  /\ fCalls' = Tail(fCalls)
  /\ UNCHANGED <<chainVars, unitVars, routeVars, loadVars, selVars, arcVars>>

Init ==
  /\ fCalls \in {<<a>> : a \in FrameInputs}
  /\ fResults = <<>>
  /\ ChainIdle
  /\ UnitsIdle
  /\ RouteIdle
  /\ LoaderIdle
  /\ SelectorIdle
  /\ ArcIdle

Next == CallGenerateFrameSvg

Spec == Init /\ [][Next]_vars

InitRepeat ==
  /\ fCalls \in (SeqsUpTo(RepeatInputs, MaxCalls) \ {<<>>})
  /\ fResults = <<>>
  /\ ChainIdle
  /\ UnitsIdle
  /\ RouteIdle
  /\ LoaderIdle
  /\ SelectorIdle
  /\ ArcIdle

SpecRepeat == InitRepeat /\ [][Next]_vars

----------------------------------------------------------------------------
(* Properties of generateFrameSvg *)

\* The calls made so far that returned a value.
Returned == {k \in 1..Len(fResults) : ~fResults[k].out.threw}

\* The boundaries of a contour at which the direction changes: the indices
\* i < Len(segments) whose transition is not 'coplanar-line'.
DirectionChanges(profile) ==
  LET segments == computeSegments(profile)
  IN {i \in 1..(Len(segments) - 1) : reasonAt(segments, i) # "coplanar-line"}

\* |x| at the end of segment i of a contour.
BoundaryX(profile, i) == Abs(computeSegments(profile)[i].end.x)

RectOffsets(out) == {out.rectangles[j].offset : j \in 1..Len(out.rectangles)}

\* The L-shaped step: 50 across the face, then 30 deep, from the origin.
LStep == [origin |-> Undefined, segments |-> <<LineTo(Whole(50), 0), LineTo(0, Whole(30))>>]
Painting460x610 == [width |-> Whole(460), height |-> Whole(610)]

\* C1: a call whose painting width or height is <= 0 throws and returns no
\* svg, viewBox or rectangles, whatever the contour and the options.
C1_RejectsNonPositive ==
  \A k \in 1..Len(fResults) :
    (fResults[k].painting.width <= 0 \/ fResults[k].painting.height <= 0)
      => /\ fResults[k].out.threw
         /\ DOMAIN fResults[k].out \cap {"svg", "viewBox", "rectangles", "highlightBands"} = {}

C1_Witness ==
  \E k \in 1..Len(fResults) :
    /\ fResults[k].painting = [width |-> 0, height |-> Whole(10)]
    /\ Len(fResults[k].profile.segments) = MaxSegs
    /\ fResults[k].out.threw

\* C2: the rectangles of every returned result are strictly ascending by
\* offset, so no offset appears twice.
C2_StrictlyAscending ==
  \A k \in Returned :
    LET rs == fResults[k].out.rectangles
    IN \A i, j \in 1..Len(rs) : i < j => rs[i].offset < rs[j].offset

C2_Witness ==
  \E k \in Returned :
    /\ Len(fResults[k].out.rectangles) >= 2
    /\ Cardinality(DirectionChanges(fResults[k].profile)) >= 2

\* C3 (as claimed, in the case it names): when a direction change lies at a
\* boundary whose |x| is 0, no rectangle of the result has offset 0.
C3_NoZeroOffset ==
  \A k \in Returned :
    (\E i \in DirectionChanges(fResults[k].profile) : BoundaryX(fResults[k].profile, i) = 0)
      => 0 \notin RectOffsets(fResults[k].out)

\* C4 (as claimed): painting 460 x 610 with the L-shaped step gives the two
\* rectangles {50, 560, 710} and {80, 620, 770}.
C4_TwoRectangles ==
  \A k \in Returned :
    (fResults[k].painting = Painting460x610 /\ fResults[k].profile = LStep)
      => fResults[k].out.rectangles =
           << [offset |-> Whole(50), width |-> Whole(560), height |-> Whole(710)],
              [offset |-> Whole(80), width |-> Whole(620), height |-> Whole(770)] >>

\* C4 (amended): painting 460 x 610 with the L-shaped step gives exactly one
\* event offset, 50, and the single rectangle {50, 560, 710}: the one
\* boundary between the two segments is the only event.
C4_OneRectangle ==
  \A k \in Returned :
    (fResults[k].painting = Painting460x610 /\ fResults[k].profile = LStep)
      => fResults[k].out.rectangles =
           << [offset |-> Whole(50), width |-> Whole(560), height |-> Whole(710)] >>

C4_Witness ==
  \E k \in Returned :
    /\ fResults[k].painting = Painting460x610
    /\ fResults[k].profile = LStep
    /\ Len(fResults[k].out.rectangles) = 1

\* C5 (as claimed): two direction-changing boundaries whose |x| differ by
\* less than 1e-4 yield one rectangle between them.
C5_CloseOffsetsMerge ==
  \A k \in Returned :
    \A i, j \in DirectionChanges(fResults[k].profile) :
      LET xi == BoundaryX(fResults[k].profile, i)
          xj == BoundaryX(fResults[k].profile, j)
      IN Abs(xi - xj) < Step
           => Cardinality(RectOffsets(fResults[k].out) \cap {round(xi), round(xj)}) = 1

\* C5 (amended): two direction-changing boundaries whose |x| round to the
\* same 4-decimal value yield one rectangle, at that value; the rectangles
\* are as many as the distinct rounded values.
C5_SameRoundingMerges ==
  \A k \in Returned :
    LET profile == fResults[k].profile
        rs      == fResults[k].out.rectangles
    IN /\ \A i, j \in DirectionChanges(profile) :
            round(BoundaryX(profile, i)) = round(BoundaryX(profile, j))
              => Cardinality({n \in 1..Len(rs) : rs[n].offset = round(BoundaryX(profile, i))}) = 1
       /\ Len(rs) = Cardinality({round(BoundaryX(profile, i)) : i \in DirectionChanges(profile)})

C5_Witness ==
  \E k \in Returned :
    \E i, j \in DirectionChanges(fResults[k].profile) :
      /\ i # j
      /\ BoundaryX(fResults[k].profile, i) # BoundaryX(fResults[k].profile, j)
      /\ round(BoundaryX(fResults[k].profile, i)) = round(BoundaryX(fResults[k].profile, j))
      /\ Len(fResults[k].out.rectangles) = 1

----------------------------------------------------------------------------
(* The DXF conversion route: chainPrimitives *)

\* Chainer coordinates count 0.5e-5, so eps = 1e-5 is 2 units.
\* n whole coordinate units (n.0).
K(n) == n * 200000

PrimLine(a, b) == [kind |-> "line", start |-> a, end |-> b]
PrimArc(a, b, r, cw, large, c) ==
  [kind |-> "arc", start |-> a, end |-> b, radius |-> r,
   clockwise |-> cw, largeArc |-> large, center |-> c]

\* eq(a, b): Math.hypot(a.x - b.x, a.y - b.y) <= eps.
eq(a, b) ==
  /\ Abs(a.x - b.x) <= 2
  /\ Abs(a.y - b.y) <= 2
  /\ (a.x - b.x) * (a.x - b.x) + (a.y - b.y) * (a.y - b.y) <= 4

\* reverse that leaves the sweep direction of an arc as it was.
reverseKeepsDirection(p) ==
  IF p.kind = "line"
  THEN [kind |-> "line", start |-> p.end, end |-> p.start]
  ELSE [kind |-> "arc", start |-> p.end, end |-> p.start, radius |-> p.radius,
        clockwise |-> p.clockwise, largeArc |-> p.largeArc, center |-> p.center]

reverse(p) ==
  IF p.kind = "line"
  THEN [kind |-> "line", start |-> p.end, end |-> p.start]
  ELSE [kind |-> "arc", start |-> p.end, end |-> p.start, radius |-> p.radius,
        clockwise |-> ~p.clockwise, largeArc |-> p.largeArc, center |-> p.center]

\* v * v for |v| < 2,000,000 as <<hi, lo>>, hi * 10^6 + lo, without a product
\* beyond 32 bits.
Square(v) ==
  LET a == Abs(v) \div 1000
      b == Abs(v) % 1000
      m == 2 * a * b
  IN <<a * a + m \div 1000, (m % 1000) * 1000 + b * b>>

\* x^2 + y^2 of a point, as a normalised <<hi, lo>>.
HypotSquared(p) ==
  LET sx == Square(p.x)
      sy == Square(p.y)
      lo == sx[2] + sy[2]
  IN <<sx[1] + sy[1] + lo \div 1000000, lo % 1000000>>

\* Math.hypot(p.x, p.y) < bestDist, where bestDist is Infinity (Undefined)
\* or the distance of the point that set it.
closerThan(p, best) ==
  IF ~best.def THEN TRUE
  ELSE LET d == HypotSquared(p)
           e == HypotSquared(best.v)
       IN d[1] < e[1] \/ (d[1] = e[1] /\ d[2] < e[2])

\* The start selection with reverseFirst left false when an end point is the
\* closest.
RECURSIVE pickStartUnreversed(_, _)
pickStartUnreversed(prims, n) ==
  IF n = 0 THEN [best |-> Undefined, startIdx |-> 1, reverseFirst |-> FALSE]
  ELSE LET prev == pickStartUnreversed(prims, n - 1)
           p    == prims[n]
           s1   == IF closerThan(p.start, prev.best)
                   THEN [best |-> Some(p.start), startIdx |-> n, reverseFirst |-> FALSE]
                   ELSE prev
       IN IF closerThan(p.end, s1.best)
          THEN [best |-> Some(p.end), startIdx |-> n, reverseFirst |-> FALSE]
          ELSE s1

\* The start selection after the first n primitives: bestDist, startIdx
\* (1-based) and reverseFirst.
RECURSIVE pickStart(_, _)
pickStart(prims, n) ==
  IF n = 0 THEN [best |-> Undefined, startIdx |-> 1, reverseFirst |-> FALSE]
  ELSE LET prev == pickStart(prims, n - 1)
           p    == prims[n]
           s1   == IF closerThan(p.start, prev.best)
                   THEN [best |-> Some(p.start), startIdx |-> n, reverseFirst |-> FALSE]
                   ELSE prev
       IN IF closerThan(p.end, s1.best)
          THEN [best |-> Some(p.end), startIdx |-> n, reverseFirst |-> TRUE]
          ELSE s1

\* The two tests of the extension loop on an unused primitive p.
matchesStart(curr, p) == eq(curr.end, p.start)

matchesEndNever(curr, p) == FALSE

matchesEnd(curr, p) == eq(curr.end, p.end)

\* The unused primitives the for-loop would accept.
Candidates(prims, used, curr) ==
  {i \in 1..Len(prims) : ~used[i] /\ (matchesStart(curr, prims[i]) \/ matchesEnd(curr, prims[i]))}

\* What happens when the for-loop finds nothing: `if (!found) break`, and
\* the function returns out.
afterNoMatchStrict(used) ==
  IF \A i \in 1..Len(used) : used[i] THEN "done" ELSE "threw"

afterNoMatch(used) == "done"

\* The start of the chain without `used[startIdx] = true`.
ChainStartUnmarked ==
  /\ cPc = "idle"
  /\ cPrims # <<>>
  /\ LET sel   == pickStart(cPrims, Len(cPrims))
         first == IF sel.reverseFirst THEN reverse(cPrims[sel.startIdx]) ELSE cPrims[sel.startIdx]
     IN /\ cCurr' = Some(first)
        /\ cOut' = <<first>>
  /\ cPc' = "loop"
  /\ UNCHANGED <<cPrims, cUsed, frameVars, unitVars, routeVars, loadVars, selVars, arcVars>>

\* Lines 343-363: pick the start, orient it, mark it used.
ChainStart ==
  /\ cPc = "idle"
  /\ cPrims # <<>>
  /\ LET sel   == pickStart(cPrims, Len(cPrims))
         first == IF sel.reverseFirst THEN reverse(cPrims[sel.startIdx]) ELSE cPrims[sel.startIdx]
     IN /\ cCurr' = Some(first)
        /\ cUsed' = [cUsed EXCEPT ![sel.startIdx] = TRUE]
        /\ cOut' = <<first>>
  /\ cPc' = "loop"
  /\ UNCHANGED <<cPrims, frameVars, unitVars, routeVars, loadVars, selVars, arcVars>>

\* One iteration of while(true) in which the for-loop finds a primitive: the
\* first unused one, in list order, that touches curr.end.
ChainExtend ==
  /\ cPc = "loop"
  /\ Candidates(cPrims, cUsed, cCurr.v) # {}
  /\ LET i    == CHOOSE c \in Candidates(cPrims, cUsed, cCurr.v) :
                   \A d \in Candidates(cPrims, cUsed, cCurr.v) : c <= d
         p    == cPrims[i]
         next == IF matchesStart(cCurr.v, p) THEN p ELSE reverse(p)
     IN /\ cOut' = Append(cOut, next)
        /\ cUsed' = [cUsed EXCEPT ![i] = TRUE]
        /\ cCurr' = Some(next)
  /\ UNCHANGED <<cPrims, cPc, frameVars, unitVars, routeVars, loadVars, selVars, arcVars>>

\* The iteration in which the for-loop finds nothing.
ChainStop ==
  /\ cPc = "loop"
  /\ Candidates(cPrims, cUsed, cCurr.v) = {}
  /\ cPc' = afterNoMatch(cUsed)
  /\ UNCHANGED <<cPrims, cUsed, cCurr, cOut, frameVars, unitVars, routeVars, loadVars,
               selVars, arcVars>>

----------------------------------------------------------------------------
(* Inputs of chainPrimitives *)

MaxShift == 1

P(x, y) == Pt(K(x), K(y))

\* The drawings: each a list of primitives in drawing order.
\*  - the unit square, four lines;
\*  - two lines with a gap between them;
\*  - an open path of three lines;
\*  - a closed loop of two lines and a quarter arc;
\*  - an open path of a line, a quarter arc and a line;
\*  - an open path of two lines whose joint is 0.5e-5 apart.
UnitSquare ==
  << PrimLine(P(0, 0), P(1, 0)), PrimLine(P(1, 0), P(1, 1)),
     PrimLine(P(1, 1), P(0, 1)), PrimLine(P(0, 1), P(0, 0)) >>

GapPair == << PrimLine(P(0, 0), P(1, 0)), PrimLine(P(2, 0), P(3, 0)) >>

OpenPath ==
  << PrimLine(P(0, 0), P(1, 0)), PrimLine(P(1, 0), P(1, 1)), PrimLine(P(1, 1), P(2, 1)) >>

ArcLoop ==
  << PrimLine(P(0, 0), P(1, 0)),
     PrimArc(P(1, 0), P(0, 1), K(1), FALSE, FALSE, P(0, 0)),
     PrimLine(P(0, 1), P(0, 0)) >>

ArcPath ==
  << PrimLine(P(0, 0), P(1, 0)),
     PrimArc(P(1, 0), P(2, 1), K(1), FALSE, FALSE, P(1, 1)),
     PrimLine(P(2, 1), P(2, 2)) >>

NearJoint ==
  << PrimLine(P(0, 0), P(1, 0)), PrimLine(Pt(K(1) + 1, 0), P(2, 0)) >>

Drawings == {UnitSquare, GapPair, OpenPath, ArcLoop, ArcPath, NearJoint}

shiftPt(p, sx, sy) == Pt(p.x + K(sx), p.y + K(sy))

shiftPrim(p, sx, sy) ==
  IF p.kind = "line"
  THEN PrimLine(shiftPt(p.start, sx, sy), shiftPt(p.end, sx, sy))
  ELSE PrimArc(shiftPt(p.start, sx, sy), shiftPt(p.end, sx, sy), p.radius,
               p.clockwise, p.largeArc, shiftPt(p.center, sx, sy))

Perms(n) == {f \in [1..n -> 1..n] : \A i, j \in 1..n : f[i] = f[j] => i = j}

\* A drawing moved by (sx, sy), listed in the order perm, with the
\* primitives chosen by flip given end-to-start.
Arrange(drawing, sx, sy, perm, flip) ==
  [i \in 1..Len(drawing) |->
     LET p == shiftPrim(drawing[perm[i]], sx, sy)
     IN IF flip[i] THEN reverse(p) ELSE p]

ChainInputs ==
  UNION {{Arrange(d, sx, sy, perm, flip) :
            sx \in (-MaxShift)..MaxShift, sy \in (-MaxShift)..MaxShift,
            perm \in Perms(Len(d)), flip \in [1..Len(d) -> BOOLEAN]} :
         d \in Drawings}

InitChain ==
  /\ FrameIdle
  /\ UnitsIdle
  /\ RouteIdle
  /\ LoaderIdle
  /\ SelectorIdle
  /\ ArcIdle
  /\ cPrims \in ChainInputs
  /\ cUsed = [i \in 1..Len(cPrims) |-> FALSE]
  /\ cCurr = Undefined
  /\ cOut = <<>>
  /\ cPc = "idle"

NextChain == ChainStart \/ ChainExtend \/ ChainStop

SpecChain == InitChain /\ [][NextChain]_vars

----------------------------------------------------------------------------
(* Properties of chainPrimitives *)

\* The endpoints of a list of primitives, as <<index, point>> pairs.
EndpointsOf(prims) ==
  {<<i, prims[i].start>> : i \in 1..Len(prims)} \cup {<<i, prims[i].end>> : i \in 1..Len(prims)}

\* How many primitive ends lie at point q (within eps).
DegreeAt(prims, q) ==
  Cardinality({i \in 1..Len(prims) : eq(prims[i].start, q)})
  + Cardinality({i \in 1..Len(prims) : eq(prims[i].end, q)})

SharesEndpoint(p, q) ==
  \/ eq(p.start, q.start) \/ eq(p.start, q.end)
  \/ eq(p.end, q.start) \/ eq(p.end, q.end)

\* The primitives reachable from those in S through shared endpoints.
RECURSIVE ReachableFrom(_, _)
ReachableFrom(prims, S) ==
  LET T == S \cup {j \in 1..Len(prims) : \E i \in S : SharesEndpoint(prims[i], prims[j])}
  IN IF T = S THEN S ELSE ReachableFrom(prims, T)

IsConnected(prims) == ReachableFrom(prims, {1}) = 1..Len(prims)

\* A closed connected loop: connected, and every end meets exactly one other.
IsClosedLoop(prims) ==
  /\ IsConnected(prims)
  /\ \A e \in EndpointsOf(prims) : DegreeAt(prims, e[2]) = 2

\* One connected open path without gaps or branches: connected, two free
\* ends, and every other end meets exactly one other.
IsOpenPath(prims) ==
  /\ IsConnected(prims)
  /\ \A e \in EndpointsOf(prims) : DegreeAt(prims, e[2]) \in {1, 2}
  /\ Cardinality({e \in EndpointsOf(prims) : DegreeAt(prims, e[2]) = 1}) = 2

\* The chain is connected: each element starts where the one before ends.
ChainConnected(out) ==
  \A k \in 1..(Len(out) - 1) : eq(out[k].end, out[k + 1].start)

\* The chain holds every input primitive, as given or reversed, once.
ChainHoldsAll(prims, out) ==
  /\ Len(out) = Len(prims)
  /\ \A i \in 1..Len(prims) : \E k \in 1..Len(out) : out[k] \in {prims[i], reverse(prims[i])}

\* C8: for a closed connected loop, in any order and with any primitives
\* given reversed, the returned chain is connected and holds every primitive.
C8_ClosedLoopChainsAll ==
  (cPc # "idle" /\ cPc # "loop" /\ IsClosedLoop(cPrims))
    => /\ cPc = "done"
       /\ ChainConnected(cOut)
       /\ ChainHoldsAll(cPrims, cOut)

C8_Witness ==
  /\ cPc = "done"
  /\ IsClosedLoop(cPrims)
  /\ Len(cPrims) = 4
  /\ \A i \in 1..4 : cPrims[i].kind = "line"
  /\ K(1) \in {cPrims[i].start.x : i \in 1..4} /\ 0 \in {cPrims[i].start.x : i \in 1..4}
  /\ cOut[1] # cPrims[1]
  /\ \E k \in 2..4 : cOut[k] \notin {cPrims[i] : i \in 1..4}
  /\ ChainHoldsAll(cPrims, cOut)

\* C9: the chainer never raises an error; it returns only once no unused
\* primitive touches the end of the chain; two primitives that share no
\* endpoint chain to one of them alone, and (0,0)-(1,0) with (2,0)-(3,0)
\* chains to (0,0)-(1,0) alone.
C9_GapEndsChain ==
  /\ cPc # "threw"
  /\ cPc = "done" =>
       /\ \A i \in 1..Len(cPrims) :
            ~cUsed[i] => ~eq(cCurr.v.end, cPrims[i].start) /\ ~eq(cCurr.v.end, cPrims[i].end)
       /\ (Len(cPrims) = 2 /\ ~SharesEndpoint(cPrims[1], cPrims[2]))
            => /\ Len(cOut) = 1
               /\ \E i \in 1..2 : cOut[1] \in {cPrims[i], reverse(cPrims[i])}
       /\ (\A i \in 1..Len(cPrims) :
             \/ cPrims[i] \in {PrimLine(P(0, 0), P(1, 0)), PrimLine(P(1, 0), P(0, 0))}
             \/ cPrims[i] \in {PrimLine(P(2, 0), P(3, 0)), PrimLine(P(3, 0), P(2, 0))})
            => cOut = <<PrimLine(P(0, 0), P(1, 0))>>

C9_Witness ==
  /\ cPc = "done"
  /\ cPrims = <<PrimLine(P(0, 0), P(1, 0)), PrimLine(P(2, 0), P(3, 0))>>
  /\ cOut = <<PrimLine(P(0, 0), P(1, 0))>>
  /\ ~cUsed[2]

\* C10 (as claimed): for one connected open path without gaps or branches,
\* in any order and orientation and anywhere relative to the origin, the
\* returned chain is connected and holds every primitive.
C10_OpenPathChainsAll ==
  (cPc = "done" /\ IsOpenPath(cPrims))
    => /\ ChainConnected(cOut)
       /\ ChainHoldsAll(cPrims, cOut)

----------------------------------------------------------------------------
(* The DXF conversion route: unit scaling, toInchesScale *)

\* A scale factor num / den * 10^exp; JavaScript's NaN is 0 / 0.
Factor(num, den, exp) == [num |-> num, den |-> den, exp |-> exp]
NotANumber == Factor(0, 0, 0)

\* The table of inches per drawing unit, by $INSUNITS code.
UNITS_TO_INCHES ==
  [c \in 0..21 |->
     CASE c = 0  -> Factor(1, 1, 0)
       [] c = 1  -> Factor(1, 1, 0)
       [] c = 2  -> Factor(12, 1, 0)
       [] c = 3  -> Factor(63360, 1, 0)
       [] c = 4  -> Factor(10, 254, 0)
       [] c = 5  -> Factor(100, 254, 0)
       [] c = 6  -> Factor(10000, 254, 0)
       [] c = 7  -> Factor(10000, 254, 3)
       [] c = 8  -> Factor(1, 1, -6)
       [] c = 9  -> Factor(1, 1, -3)
       [] c = 10 -> Factor(36, 1, 0)
       [] c = 11 -> Factor(10000, 254, -10)
       [] c = 12 -> Factor(10000, 254, -9)
       [] c = 13 -> Factor(10000, 254, -6)
       [] c = 14 -> Factor(10000, 254, -1)
       [] c = 15 -> Factor(10000, 254, 0)
       [] c = 16 -> Factor(10000, 254, 1)
       [] c = 17 -> Factor(10000, 254, 7)
       [] c = 18 -> Factor(15588457, 1, 6)
       [] c = 19 -> Factor(58786254, 1, 10)
       [] c = 20 -> Factor(1213, 1, 16)
       [] c = 21 -> Factor(120000024, 10000000, 0)]

\* UNITS_TO_INCHES[units ?? 0] without the `?? 1`: a missing entry is
\* undefined, which every later product turns into NaN.
toInchesScaleNoDefault(units) ==
  LET key == OrElse(units, 0)
  IN IF key \in DOMAIN UNITS_TO_INCHES THEN UNITS_TO_INCHES[key] ELSE NotANumber

\* UNITS_TO_INCHES[units ?? 0] ?? 1
toInchesScale(units) ==
  LET key == OrElse(units, 0)
  IN IF key \in DOMAIN UNITS_TO_INCHES THEN UNITS_TO_INCHES[key] ELSE Factor(1, 1, 0)

\* n / d rounded to the nearest integer, d > 0.
RoundDiv(n, d) ==
  IF n >= 0 THEN (2 * n + d) \div (2 * d) ELSE -((2 * (-n) + d) \div (2 * d))

\* v * scale at the model's resolution; NaN stays NaN (Undefined).
scaleBy(v, f) ==
  IF f.den = 0 THEN Undefined
  ELSE LET up   == IF f.exp > 0 THEN Pow10(f.exp) ELSE 1
           down == IF f.exp < 0 THEN Pow10(-f.exp) ELSE 1
       IN Some(RoundDiv(v * f.num * up, f.den * down))

\* The largest magnitude of a unit code handed to toInchesScale.
MaxUnitCode == 40

\* doc.units is undefined or the integer parseInt read from the header.
UnitCodes == {Undefined} \cup {Some(c) : c \in (-MaxUnitCode)..MaxUnitCode}

CallToInchesScale ==
  /\ uCalls # <<>>
  /\ uResults' = Append(uResults, [units |-> Head(uCalls), out |-> toInchesScale(Head(uCalls))])
  /\ uCalls' = Tail(uCalls)
  /\ UNCHANGED <<frameVars, chainVars, routeVars, loadVars, selVars, arcVars>>

InitUnits ==
  /\ uCalls \in {<<u>> : u \in UnitCodes} \cup {<<u, Undefined>> : u \in UnitCodes}
  /\ uResults = <<>>
  /\ FrameIdle
  /\ ChainIdle
  /\ RouteIdle
  /\ LoaderIdle
  /\ SelectorIdle
  /\ ArcIdle

NextUnits == CallToInchesScale

SpecUnits == InitUnits /\ [][NextUnits]_vars

\* 25.4 drawing units, in chainer coordinates.
Mm25_4 == (127 * K(1)) \div 5

----------------------------------------------------------------------------
(* The DXF conversion route: parseDxf *)

\* The text is read two lines at a time, a group code and a value.  Here a
\* text is the sequence of its group pairs.  A value line is either a word
\* or a decimal number; a number is held in chainer coordinates (K(1) is
\* 1.0), whatever it is later read as.  A code line that is not a number
\* matches no code the parser tests, like any other unused code.
Str(s) == [num |-> FALSE, s |-> s, n |-> 0]
NumV(n) == [num |-> TRUE, s |-> "", n |-> n]
Pair(code, value) == [code |-> code, value |-> value]

\* The numbers the parser holds in its locals: undefined, null, NaN or a
\* number.
JsUndefined == [st |-> "undefined", n |-> 0]
JsNull == [st |-> "null", n |-> 0]
JsNaN == [st |-> "nan", n |-> 0]
JsNum(n) == [st |-> "num", n |-> n]

parseFloat(value) == IF value.num THEN JsNum(value.n) ELSE JsNaN

\* parseInt(value, 10): the integer part, a plain integer.
parseInt(value) ==
  IF ~value.num THEN JsNaN
  ELSE IF value.n >= 0 THEN JsNum(value.n \div K(1))
  ELSE JsNum(-((-value.n) \div K(1)))

\* The index of the first pair at or after i whose code is in codes, or one
\* past the end: where the inner `while` loops stop.
nextBoundary(t, i, codes) ==
  LET S == {j \in i..Len(t) : t[j].code \in codes}
  IN IF S = {} THEN Len(t) + 1 ELSE CHOOSE j \in S : \A k \in S : j <= k

\* The local a LINE or ARC loop assigns on `code`, after the pairs lo..hi.
lastOf(t, lo, hi, code) ==
  LET S == {j \in lo..hi : t[j].code = code}
  IN IF S = {} THEN JsUndefined
     ELSE parseFloat(t[CHOOSE j \in S : \A k \in S : k <= j].value)

\* doc.units after the pairs lo..hi of the header variable varName.
headerUnits(t, lo, hi, varName, units) ==
  LET S == {j \in lo..hi : /\ varName = "$INSUNITS"
                           /\ t[j].code \in {70, 90}
                           /\ parseInt(t[j].value).st = "num"}
  IN IF S = {} THEN units
     ELSE Some(parseInt(t[CHOOSE j \in S : \A k \in S : k <= j].value).n)

\* The LWPOLYLINE loop over the pairs k..hi; st holds vx, vy, vbulge, closed
\* and vertices.
RECURSIVE readVertices(_, _, _, _)
readVertices(t, k, hi, st) ==
  IF k > hi THEN st
  ELSE LET p  == t[k]
           s1 == CASE p.code = 10 -> [st EXCEPT !.vx = parseFloat(p.value)]
                   [] p.code = 20 -> [st EXCEPT !.vy = parseFloat(p.value)]
                   [] p.code = 42 -> [st EXCEPT !.vbulge = parseFloat(p.value)]
                   [] p.code = 70 ->
                        [st EXCEPT !.closed = /\ parseInt(p.value).st = "num"
                                              /\ parseInt(p.value).n % 2 = 1]
                   [] OTHER -> st
           s2 == IF s1.vx.st = "num" /\ s1.vy.st = "num"
                 THEN [s1 EXCEPT !.vertices = Append(@, [x |-> s1.vx.n, y |-> s1.vy.n,
                                                         bulge |-> s1.vbulge]),
                                 !.vx = JsNull, !.vy = JsNull, !.vbulge = JsUndefined]
                 ELSE s1
       IN readVertices(t, k + 1, hi, s2)

readPolyline(t, lo, hi) ==
  LET st == readVertices(t, lo, hi,
              [vx |-> JsNull, vy |-> JsNull, vbulge |-> JsUndefined,
               closed |-> FALSE, vertices |-> <<>>])
  IN [vertices |-> st.vertices, closed |-> st.closed]

\* The LINE loop and its push: the entity, or <<>> when a local is undefined
\* or NaN.
readLine(t, lo, hi) ==
  LET x1 == lastOf(t, lo, hi, 10)
      y1 == lastOf(t, lo, hi, 20)
      x2 == lastOf(t, lo, hi, 11)
      y2 == lastOf(t, lo, hi, 21)
  IN IF \A v \in {x1, y1, x2, y2} : v.st = "num"
     THEN <<[x1 |-> x1.n, y1 |-> y1.n, x2 |-> x2.n, y2 |-> y2.n]>>
     ELSE <<>>

readArc(t, lo, hi) ==
  LET cx == lastOf(t, lo, hi, 10)
      cy == lastOf(t, lo, hi, 20)
      r  == lastOf(t, lo, hi, 40)
      sa == lastOf(t, lo, hi, 50)
      ea == lastOf(t, lo, hi, 51)
  IN IF \A v \in {cx, cy, r, sa, ea} : v.st = "num"
     THEN <<[cx |-> cx.n, cy |-> cy.n, r |-> r.n, start |-> sa.n, end |-> ea.n]>>
     ELSE <<>>

\* The main loop from pair i on; section is "" for null.
RECURSIVE parseFrom(_, _, _, _)
parseFrom(t, i, section, doc) ==
  IF i > Len(t) THEN doc
  ELSE
    LET code  == t[i].code
        value == t[i].value
    IN IF section = "HEADER" /\ code = 9
       THEN LET j == nextBoundary(t, i + 1, {9, 0})
            IN parseFrom(t, j, section,
                 [doc EXCEPT !.units = headerUnits(t, i + 1, j - 1, value.s, doc.units)])
       ELSE IF code # 0 THEN parseFrom(t, i + 1, section, doc)
       ELSE IF value = Str("SECTION")
       THEN parseFrom(t, i + 2,
              IF i + 1 <= Len(t) /\ t[i + 1].code = 2 THEN t[i + 1].value.s ELSE section,
              doc)
       ELSE IF value = Str("ENDSEC") THEN parseFrom(t, i + 1, "", doc)
       ELSE IF value = Str("EOF") THEN doc
       ELSE IF section = "ENTITIES" /\ value \in {Str("LWPOLYLINE"), Str("LINE"), Str("ARC")}
       THEN LET j == nextBoundary(t, i + 1, {0})
            IN parseFrom(t, j, section,
                 CASE value = Str("LWPOLYLINE") ->
                        [doc EXCEPT !.polylines = Append(@, readPolyline(t, i + 1, j - 1))]
                   [] value = Str("LINE") ->
                        [doc EXCEPT !.lines = @ \o readLine(t, i + 1, j - 1)]
                   [] value = Str("ARC") ->
                        [doc EXCEPT !.arcs = @ \o readArc(t, i + 1, j - 1)])
       ELSE parseFrom(t, i + 1, section, doc)

parseDxf(text) ==
  parseFrom(text, 1, "", [units |-> Undefined, polylines |-> <<>>, lines |-> <<>>, arcs |-> <<>>])

----------------------------------------------------------------------------
(* The DXF conversion route: toFrameSpecFromDxf *)

\* Lengths keep the chainer's unit of 0.5e-5; angles of ARC entities are
\* degrees in the same fixed point (K(90) is 90 degrees), a bulge likewise
\* (K(1) is the semicircle, bulge 1.0).

\* The largest s with s * s <= n.
RECURSIVE ISqrt(_)
ISqrt(n) ==
  IF n < 2 THEN n
  ELSE LET s == 2 * ISqrt(n \div 4)
       IN IF (s + 1) * (s + 1) <= n THEN s + 1 ELSE s

\* Math.hypot(dx, dy): exact along the axes, otherwise to 100 units (5e-4).
Hypot(dx, dy) ==
  IF dy = 0 THEN Abs(dx)
  ELSE IF dx = 0 THEN Abs(dy)
  ELSE 100 * ISqrt((Abs(dx) \div 100) * (Abs(dx) \div 100)
                   + (Abs(dy) \div 100) * (Abs(dy) \div 100))

RECURSIVE Gcd(_, _)
Gcd(a, b) == IF b = 0 THEN a ELSE Gcd(b, a % b)

\* chord / (2 * sin(2 * atan|bulge|)), which is chord * (1 + bulge^2) /
\* (4 * |bulge|); bulge # 0.
bulgeToArcRadius(chord, bulge) ==
  LET g == Gcd(Abs(bulge), K(1))
      p == Abs(bulge) \div g
      q == K(1) \div g
  IN RoundDiv(chord * (p * p + q * q), 4 * p * q)

normalizeAngleDeg(a) == a % K(360)

arcSweepCCW(start, end) ==
  LET delta == normalizeAngleDeg(end) - normalizeAngleDeg(start)
  IN IF delta >= 0 THEN delta ELSE delta + K(360)

\* Math.cos and Math.sin of an angle in degrees; the model's ARC entities
\* start and end on the axes.
cosDeg(a) ==
  CASE normalizeAngleDeg(a) = 0 -> 1
    [] normalizeAngleDeg(a) = K(90) -> 0
    [] normalizeAngleDeg(a) = K(180) -> -1
    [] normalizeAngleDeg(a) = K(270) -> 0

sinDeg(a) == cosDeg(a - K(90))

\* The sweep from a to b about c in the requested direction, in
\* micro-radians, in [0, 2 pi).
sweepFor(a, b, c, clockwise) ==
  LET a1 == Atan2(a.y - c.y, a.x - c.x)
      a2 == Atan2(b.y - c.y, b.x - c.x)
      s  == IF clockwise THEN a1 - a2 ELSE a2 - a1
  IN IF s < 0 THEN s + 2 * PiMicro ELSE s

\* fits(c): the sweep is large (> pi - 1e-6) exactly when largeArc is asked.
fits(a, b, c, clockwise, largeArc) ==
  (sweepFor(a, b, c, clockwise) > PiMicro - 1) = largeArc

\* v / 2 and v / 100 towards zero.
Half(v) == IF v >= 0 THEN v \div 2 ELSE -((-v) \div 2)
Hundredth(v) == IF v >= 0 THEN v \div 100 ELSE -((-v) \div 100)

\* A choice that takes the first candidate whatever its sweep.
chooseArcCenterFirst(a, b, radius, clockwise, largeArc) ==
  LET dx == b.x - a.x
      dy == b.y - a.y
      d  == Hypot(dx, dy)
      h  == IF 2 * radius <= d THEN 0
            ELSE 50 * ISqrt((radius \div 50) * (radius \div 50) - (d \div 100) * (d \div 100))
  IN Pt(Half(a.x + b.x) + 100 * RoundDiv(-Hundredth(dy) * Hundredth(h), Hundredth(d)),
        Half(a.y + b.y) + 100 * RoundDiv(Hundredth(dx) * Hundredth(h), Hundredth(d)))

\* The two candidate centres on the chord's perpendicular bisector, and the
\* choice between them, for a # b.  The offset h along the bisector is exact
\* when it is zero (radius <= d / 2, the semicircle) and otherwise computed
\* to 100 units.
chooseArcCenter(a, b, radius, clockwise, largeArc) ==
  LET dx == b.x - a.x
      dy == b.y - a.y
      d  == Hypot(dx, dy)
      mx == Half(a.x + b.x)
      my == Half(a.y + b.y)
      h  == IF 2 * radius <= d THEN 0
            ELSE 50 * ISqrt((radius \div 50) * (radius \div 50) - (d \div 100) * (d \div 100))
      ox == 100 * RoundDiv(-Hundredth(dy) * Hundredth(h), Hundredth(d))
      oy == 100 * RoundDiv(Hundredth(dx) * Hundredth(h), Hundredth(d))
      c1 == IF h = 0 THEN Pt(mx, my) ELSE Pt(mx + ox, my + oy)
      c2 == IF h = 0 THEN Pt(mx, my) ELSE Pt(mx - ox, my - oy)
      f1 == fits(a, b, c1, clockwise, largeArc)
      f2 == fits(a, b, c2, clockwise, largeArc)
  IN IF f1 /\ ~f2 THEN c1
     ELSE IF f2 /\ ~f1 THEN c2
     ELSE IF sweepFor(a, b, c1, clockwise) <= sweepFor(a, b, c2, clockwise) THEN c1 ELSE c2

\* rotFn with cw90 and ccw90 exchanged.
rotFnExchanged(rotate, p) ==
  IF rotate = "cw90" THEN Pt(-p.y, p.x)
  ELSE IF rotate = "ccw90" THEN Pt(p.y, -p.x)
  ELSE IF rotate = "180" THEN Pt(-p.x, -p.y)
  ELSE p

rotFn(rotate, p) ==
  IF rotate = "cw90" THEN Pt(p.y, -p.x)
  ELSE IF rotate = "ccw90" THEN Pt(-p.y, p.x)
  ELSE IF rotate = "180" THEN Pt(-p.x, -p.y)
  ELSE p

\* rotFn({ x: x * scale, y: y * scale })
scaledPoint(x, y, scale, rotate) ==
  rotFn(rotate, Pt(scaleBy(x, scale).v, scaleBy(y, scale).v))

\* The primitive pushed for the polyline segment from a to b, with the
\* bulge the vertex record holds (`?? 0`; NaN compares false).
segmentPrim(a, b, vbulge) ==
  IF vbulge.st = "num" /\ vbulge.n # 0
  THEN LET chord     == Hypot(b.x - a.x, b.y - a.y)
           r         == bulgeToArcRadius(chord, vbulge.n)
           clockwise == vbulge.n < 0
           largeArc  == Abs(vbulge.n) > K(1)
       IN PrimArc(a, b, r, clockwise, largeArc, chooseArcCenter(a, b, r, clockwise, largeArc))
  ELSE PrimLine(a, b)

polylinePrims(pl, scale, rotate) ==
  LET n     == Len(pl.vertices)
      verts == [i \in 1..n |-> scaledPoint(pl.vertices[i].x, pl.vertices[i].y, scale, rotate)]
      open  == [i \in 1..(n - 1) |-> segmentPrim(verts[i], verts[i + 1], pl.vertices[i].bulge)]
  IN IF n <= 1 THEN <<>>
     ELSE open \o (IF pl.closed
                   THEN <<segmentPrim(verts[n], verts[1], pl.vertices[n].bulge)>>
                   ELSE <<>>)

linePrim(ln, scale, rotate) ==
  PrimLine(scaledPoint(ln.x1, ln.y1, scale, rotate), scaledPoint(ln.x2, ln.y2, scale, rotate))

arcPrim(arc, scale, rotate) ==
  LET sp     == scaledPoint(arc.cx + arc.r * cosDeg(arc.start),
                            arc.cy + arc.r * sinDeg(arc.start), scale, rotate)
      ep     == scaledPoint(arc.cx + arc.r * cosDeg(arc.end),
                            arc.cy + arc.r * sinDeg(arc.end), scale, rotate)
      center == scaledPoint(arc.cx, arc.cy, scale, rotate)
  IN PrimArc(sp, ep, scaleBy(arc.r, scale).v, FALSE,
             arcSweepCCW(arc.start, arc.end) > K(180), center)

RECURSIVE flatten(_)
flatten(ss) == IF ss = <<>> THEN <<>> ELSE Head(ss) \o flatten(Tail(ss))

\* Lines 241-293: prims, in the order they are pushed.
gatherPrims(doc, rotate) ==
  LET scale == toInchesScale(doc.units)
  IN flatten([i \in 1..Len(doc.polylines) |-> polylinePrims(doc.polylines[i], scale, rotate)])
       \o [i \in 1..Len(doc.lines) |-> linePrim(doc.lines[i], scale, rotate)]
       \o [i \in 1..Len(doc.arcs) |-> arcPrim(doc.arcs[i], scale, rotate)]

\* chainPrimitives as one call: the while(true) loop from curr on.
RECURSIVE extendChain(_, _, _, _)
extendChain(prims, used, curr, out) ==
  LET cands == Candidates(prims, used, curr)
  IN IF cands = {} THEN out
     ELSE LET i    == CHOOSE c \in cands : \A e \in cands : c <= e
              next == IF matchesStart(curr, prims[i]) THEN prims[i] ELSE reverse(prims[i])
          IN extendChain(prims, [used EXCEPT ![i] = TRUE], next, Append(out, next))

chainPrimitives(prims) ==
  LET sel   == pickStart(prims, Len(prims))
      first == IF sel.reverseFirst THEN reverse(prims[sel.startIdx]) ELSE prims[sel.startIdx]
  IN extendChain(prims, [i \in 1..Len(prims) |-> i = sel.startIdx], first, <<first>>)

MinOf(S) == CHOOSE v \in S : \A w \in S : v <= w
MaxOf(S) == CHOOSE v \in S : \A w \in S : w <= v

contourElement(p) ==
  IF p.kind = "line"
  THEN [type |-> "line", to |-> Pt(p.end.x, p.end.y)]
  ELSE [type |-> "arc", to |-> Pt(p.end.x, p.end.y), radius |-> p.radius,
        clockwise |-> p.clockwise, largeArc |-> p.largeArc,
        metadata |-> [center |-> p.center]]

NoConvertibleEntities == "No convertible entities (LWPOLYLINE/LINE/ARC) found."

\* What an empty prims list leads to, without the check of lines 295-297
\* and with a chainer that returned nothing: a record with no contour.
whenNoPrimsRecord(name, id) ==
  [threw |-> FALSE,
   profile |-> [schema |-> "./schema.json", id |-> id, name |-> name,
                description |-> "Imported from DXF", units |-> "in",
                dimensions |-> [width |-> 0, height |-> 0],
                start |-> Pt(0, 0), contour |-> <<>>]]

\* Lines 295-297: prims is empty.
whenNoPrims(name, id) == [threw |-> TRUE, error |-> NoConvertibleEntities]

\* Lines 301-331: the bounds of the chain and the record returned.
profileOfChain(chain, name, id) ==
  LET start == chain[1].start
      xs    == {start.x} \cup {chain[i].end.x : i \in 1..Len(chain)}
      ys    == {start.y} \cup {chain[i].end.y : i \in 1..Len(chain)}
  IN [threw |-> FALSE,
      profile |->
        [schema |-> "./schema.json",
         id |-> id, name |-> name, description |-> "Imported from DXF",
         units |-> "in",
         dimensions |-> [width |-> MaxOf(xs) - MinOf(xs), height |-> MaxOf(ys) - MinOf(ys)],
         start |-> start,
         contour |-> [i \in 1..Len(chain) |-> contourElement(chain[i])]]]

\* Lines 295-300: the check of prims, and the chain of what was gathered.
convertPrims(prims, name, id) ==
  IF prims = <<>>
  THEN whenNoPrims(name, id)
  ELSE profileOfChain(chainPrimitives(prims), name, id)

\* The ProfileDefinition, or the thrown error.
toFrameSpecFromDxf(doc, name, id, rotate) ==
  convertPrims(gatherPrims(doc, rotate), name, id)

----------------------------------------------------------------------------
(* The DXF conversion route: the POST handler and the profile store *)

\* Names, identifiers and path segments are sequences of characters.
UpperCase == <<"A", "B", "C", "D", "E", "F", "G", "H", "I", "J", "K", "L", "M",
               "N", "O", "P", "Q", "R", "S", "T", "U", "V", "W", "X", "Y", "Z">>
LowerCase == <<"a", "b", "c", "d", "e", "f", "g", "h", "i", "j", "k", "l", "m",
               "n", "o", "p", "q", "r", "s", "t", "u", "v", "w", "x", "y", "z">>
Digits == {"0", "1", "2", "3", "4", "5", "6", "7", "8", "9"}

toLowerCase(c) ==
  IF \E i \in 1..Len(UpperCase) : UpperCase[i] = c
  THEN LowerCase[CHOOSE i \in 1..Len(UpperCase) : UpperCase[i] = c]
  ELSE c

\* [a-z0-9]
isSlugChar(c) == c \in Digits \/ \E i \in 1..Len(LowerCase) : LowerCase[i] = c

\* .replace(/[^a-z0-9]+/g, '-') on the first n characters of s.
RECURSIVE dashRuns(_, _)
dashRuns(s, n) ==
  IF n = 0 THEN <<>>
  ELSE LET before == dashRuns(s, n - 1)
       IN IF isSlugChar(s[n]) THEN Append(before, s[n])
          ELSE IF n > 1 /\ ~isSlugChar(s[n - 1]) THEN before
          ELSE Append(before, "-")

\* .replace(/^-+|-+$/g, '')
RECURSIVE trimDashes(_)
trimDashes(s) ==
  IF s = <<>> THEN s
  ELSE IF Head(s) = "-" THEN trimDashes(Tail(s))
  ELSE IF s[Len(s)] = "-" THEN trimDashes(SubSeq(s, 1, Len(s) - 1))
  ELSE s

FrameProfileSlug == <<"f", "r", "a", "m", "e", "-", "p", "r", "o", "f", "i", "l", "e">>

slugify(input) ==
  LET lowered == [i \in 1..Len(input) |-> toLowerCase(input[i])]
      trimmed == trimDashes(dashRuns(lowered, Len(lowered)))
      sliced  == SubSeq(trimmed, 1, IF Len(trimmed) < 64 THEN Len(trimmed) ELSE 64)
  IN IF sliced = <<>> THEN FrameProfileSlug ELSE sliced

\* f.name.replace(/\.dxf$/i, '')
stripDxf(name) ==
  LET n == Len(name)
  IN IF /\ n >= 4
        /\ [i \in 1..4 |-> toLowerCase(name[n - 4 + i])] = <<".", "d", "x", "f">>
     THEN SubSeq(name, 1, n - 4)
     ELSE name

\* The segments of a relative path: split on "/".
RECURSIVE splitPath(_, _, _)
splitPath(s, n, acc) ==
  IF n = 0 THEN <<acc>>
  ELSE IF s[n] = "/" THEN Append(splitPath(s, n - 1, <<>>), acc)
  ELSE splitPath(s, n - 1, <<s[n]>> \o acc)

\* path.join(dir, rel): the segments of rel are walked from dir; "" and "."
\* stay, ".." goes up, and the root has no parent.
RECURSIVE walkPath(_, _, _)
walkPath(dir, segs, n) ==
  IF n = 0 THEN dir
  ELSE LET at == walkPath(dir, segs, n - 1)
       IN IF segs[n] = <<>> \/ segs[n] = <<".">> THEN at
          ELSE IF segs[n] = <<".", ".">>
          THEN (IF at = <<>> THEN at ELSE SubSeq(at, 1, Len(at) - 1))
          ELSE Append(at, segs[n])

pathJoin(dir, rel) ==
  LET segs == splitPath(rel, Len(rel), <<>>)
  IN walkPath(dir, segs, Len(segs))

\* path.resolve(process.cwd(), 'data', 'profiles'); the working directory is
\* the one segment "cwd".
profilesDir == << <<"c", "w", "d">>, <<"d", "a", "t", "a">>,
                  <<"p", "r", "o", "f", "i", "l", "e", "s">> >>

DotJson == <<".", "j", "s", "o", "n">>

\* JSON.stringify(profile, null, 2) as the blocks of the text, in order: the
\* head of the record, one block per contour element, and the closing of
\* the record.
stringify(profile) ==
  << [block |-> "head", schema |-> profile.schema, id |-> profile.id, name |-> profile.name,
      description |-> profile.description, units |-> profile.units,
      dimensions |-> profile.dimensions, start |-> profile.start] >>
    \o [i \in 1..Len(profile.contour) |-> [block |-> "element", element |-> profile.contour[i]]]
    \o << [block |-> "close"] >>

\* The file after fs.open(path, 'w'): created or truncated.
opened(files, path) ==
  {f \in files : f.path # path} \cup {[path |-> path, content |-> <<>>]}

\* The content after data is written from position 0.
overwritten(content, data) ==
  [i \in 1..(IF Len(content) > Len(data) THEN Len(content) ELSE Len(data)) |->
     IF i <= Len(data) THEN data[i] ELSE content[i]]

\* The write of the whole text through the handle that fs.open returned.
written(files, path, data) ==
  {f \in files : f.path # path}
    \cup {[path |-> path, content |-> overwritten(f.content, data)] : f \in {g \in files : g.path = path}}

Response(status, body) == [status |-> status, body |-> body]

NewRequest(form) ==
  [form |-> form, pc |-> "start", dxf |-> Undefined, prims |-> <<>>,
   profile |-> Undefined, outPath |-> Undefined, response |-> Undefined]

\* Lines 404-417: the form is read, the text is parsed and converted.  The
\* handler answers 400 when the file is missing or the conversion throws.
PostConvert(r) ==
  /\ reqs[r].pc = "start"
  /\ LET form == reqs[r].form
     IN IF ~form.file.def
        THEN reqs' = [reqs EXCEPT ![r].pc = "done",
                        ![r].response = Some(Response(400, [error |-> "Missing DXF file"]))]
        ELSE LET f      == form.file.v
                 rotate == IF form.rotate # "" THEN form.rotate ELSE "none"
             IN \E nameInput \in {IF form.name # <<>> THEN form.name ELSE stripDxf(f.name)} :
                \E idInput \in {IF form.id # <<>> THEN form.id ELSE slugify(nameInput)} :
                \E dxf \in {parseDxf(f.text)} :
                \E result \in {toFrameSpecFromDxf(dxf, nameInput, idInput, rotate)} :
                \E prims \in {gatherPrims(dxf, rotate)} :
                  IF result.threw
                  THEN reqs' = [reqs EXCEPT ![r].pc = "done", ![r].dxf = Some(dxf),
                                  ![r].prims = prims,
                                  ![r].response = Some(Response(400, [error |-> result.error]))]
                  ELSE reqs' = [reqs EXCEPT ![r].pc = "mkdir", ![r].dxf = Some(dxf),
                                  ![r].prims = prims,
                                  ![r].profile = Some(result.profile)]
  /\ UNCHANGED <<store, dirMade, frameVars, chainVars, unitVars, loadVars, selVars, arcVars>>

\* Line 421: await fs.mkdir(profilesDir, { recursive: true }).
PostMkdir(r) ==
  /\ reqs[r].pc = "mkdir"
  /\ dirMade' = TRUE
  /\ reqs' = [reqs EXCEPT ![r].pc = "open",
                ![r].outPath = Some(pathJoin(profilesDir, reqs[r].profile.v.id \o DotJson))]
  /\ UNCHANGED <<store, frameVars, chainVars, unitVars, loadVars, selVars, arcVars>>

\* Line 423, first half: fs.writeFile opens the path for writing.
PostOpen(r) ==
  /\ reqs[r].pc = "open"
  /\ store' = opened(store, reqs[r].outPath.v)
  /\ reqs' = [reqs EXCEPT ![r].pc = "write"]
  /\ UNCHANGED <<dirMade, frameVars, chainVars, unitVars, loadVars, selVars, arcVars>>

\* Line 423, second half, and line 425: the text is written through the
\* handle, the handle is closed and the handler answers with the record.
PostWrite(r) ==
  /\ reqs[r].pc = "write"
  /\ store' = written(store, reqs[r].outPath.v, stringify(reqs[r].profile.v))
  /\ reqs' = [reqs EXCEPT ![r].pc = "done",
                ![r].response = Some(Response(200,
                                   [profile |-> reqs[r].profile.v,
                                    path |-> [dir |-> "data/profiles",
                                              file |-> reqs[r].profile.v.id \o DotJson]]))]
  /\ UNCHANGED <<dirMade, frameVars, chainVars, unitVars, loadVars, selVars, arcVars>>

NextRoute ==
  \/ \E r \in 1..Len(reqs) : PostConvert(r)
  \/ \E r \in 1..Len(reqs) : PostMkdir(r)
  \/ \E r \in 1..Len(reqs) : PostOpen(r)
  \/ \E r \in 1..Len(reqs) : PostWrite(r)

----------------------------------------------------------------------------
(* Inputs of the conversion route *)

\* The largest number of entities in the ENTITIES section of a text.
MaxEntities == 2

LineEntity(x1, y1, x2, y2) ==
  <<Pair(0, Str("LINE")), Pair(8, Str("0")), Pair(10, NumV(x1)), Pair(20, NumV(y1)),
    Pair(11, NumV(x2)), Pair(21, NumV(y2))>>

ArcEntity(cx, cy, r, sa, ea) ==
  <<Pair(0, Str("ARC")), Pair(10, NumV(cx)), Pair(20, NumV(cy)), Pair(40, NumV(r)),
    Pair(50, NumV(sa)), Pair(51, NumV(ea))>>

\* One vertex record of a LWPOLYLINE, its codes in the order 10, 20, 42; the
\* bulge is written only when the vertex has one.
VertexRecord(v) ==
  <<Pair(10, NumV(v.x)), Pair(20, NumV(v.y))>>
    \o (IF v.bulge = 0 THEN <<>> ELSE <<Pair(42, NumV(v.bulge))>>)

Vtx(x, y, bulge) == [x |-> x, y |-> y, bulge |-> bulge]

\* A LWPOLYLINE as CAD programs write it: vertex count (90) and flags (70)
\* first, then the vertex records.
PolylineEntity(verts, closed) ==
  <<Pair(0, Str("LWPOLYLINE")), Pair(90, NumV(K(Len(verts)))),
    Pair(70, NumV(IF closed THEN K(1) ELSE 0))>>
    \o flatten([i \in 1..Len(verts) |-> VertexRecord(verts[i])])

\* The polylines of the model's drawings.
BulgeFirst == [verts |-> <<Vtx(0, 0, K(1)), Vtx(K(2), 0, 0), Vtx(K(2), K(2), 0)>>, closed |-> FALSE]
Triangle == [verts |-> <<Vtx(0, 0, 0), Vtx(K(2), 0, 0), Vtx(0, K(1), 0)>>, closed |-> TRUE]
BulgeLast == [verts |-> <<Vtx(0, 0, 0), Vtx(K(2), 0, 0), Vtx(K(2), K(2), -K(1))>>, closed |-> TRUE]
OneVertex == [verts |-> <<Vtx(K(1), K(1), 0)>>, closed |-> FALSE]
PolylineShapes == {BulgeFirst, Triangle, BulgeLast, OneVertex}

EntityBlocks ==
  { LineEntity(0, 0, 0, K(1)),
    LineEntity(0, 0, Mm25_4, 0),
    LineEntity(0, K(1), K(2), K(3)),
    <<Pair(0, Str("LINE")), Pair(10, NumV(0)), Pair(20, NumV(0)), Pair(11, NumV(K(1)))>>,
    <<Pair(0, Str("LINE")), Pair(10, NumV(0)), Pair(20, Str("abc")), Pair(11, NumV(K(1))),
      Pair(21, NumV(K(1)))>>,
    ArcEntity(K(1), K(1), K(1), K(180), K(270)),
    <<Pair(0, Str("CIRCLE")), Pair(10, NumV(0)), Pair(20, NumV(0)), Pair(40, NumV(K(1)))>> }
    \cup {PolylineEntity(s.verts, s.closed) : s \in PolylineShapes}

\* The HEADER section, with $INSUNITS when the drawing declares a unit.
HeaderSection(units) ==
  IF ~units.def THEN <<>>
  ELSE <<Pair(0, Str("SECTION")), Pair(2, Str("HEADER")),
         Pair(9, Str("$INSUNITS")), Pair(70, NumV(K(units.v))),
         Pair(0, Str("ENDSEC"))>>

DxfText(units, entities) ==
  HeaderSection(units)
    \o <<Pair(0, Str("SECTION")), Pair(2, Str("ENTITIES"))>>
    \o flatten(entities)
    \o <<Pair(0, Str("ENDSEC")), Pair(0, Str("EOF"))>>

DxfTexts ==
  {DxfText(u, es) : u \in {Undefined, Some(4)}, es \in SeqsUpTo(EntityBlocks, MaxEntities)}

Rotations == {"", "cw90", "ccw90", "180"}

\* The name and id fields of the form with the uploaded file's name; an
\* absent field is empty.
FormNames ==
  { [name |-> <<>>, id |-> <<>>, file |-> <<"a", ".", "d", "x", "f">>],
    [name |-> <<>>, id |-> <<>>, file |-> <<".", "D", "X", "F">>],
    [name |-> <<"O", "k", " ", "2">>, id |-> <<>>, file |-> <<"a", ".", "d", "x", "f">>],
    [name |-> <<"b">>, id |-> <<"k">>, file |-> <<"a", ".", "d", "x", "f">>] }

Form(names, rotate, text) ==
  [file |-> Some([name |-> names.file, text |-> text]),
   name |-> names.name, id |-> names.id, rotate |-> rotate]

\* Every naming without a rotation, every rotation under one naming, and a
\* form without a file.
RouteForms ==
  {Form(n, "", t) : n \in FormNames, t \in DxfTexts}
    \cup {Form([name |-> <<"b">>, id |-> <<"k">>, file |-> <<"a", ".", "d", "x", "f">>], r, t) :
             r \in Rotations, t \in DxfTexts}
    \cup {[file |-> Undefined, name |-> <<"b">>, id |-> <<"k">>, rotate |-> ""]}

\* One request on an empty store.
InitRoute ==
  /\ reqs \in {<<NewRequest(f)>> : f \in RouteForms}
  /\ store = {}
  /\ dirMade = FALSE
  /\ FrameIdle
  /\ ChainIdle
  /\ UnitsIdle
  /\ LoaderIdle
  /\ SelectorIdle
  /\ ArcIdle

SpecRoute == InitRoute /\ [][NextRoute]_vars

----------------------------------------------------------------------------
(* Properties of the conversion route *)

\* The requests whose conversion step has run on an uploaded file.
Converted == {r \in 1..Len(reqs) : reqs[r].dxf.def}

\* The parsed document holds nothing to convert: no LINE, no ARC and no
\* LWPOLYLINE with a segment.
NoPrimitives(doc) ==
  /\ doc.lines = <<>>
  /\ doc.arcs = <<>>
  /\ \A i \in 1..Len(doc.polylines) : Len(doc.polylines[i].vertices) <= 1

\* C11: when parsing yields zero convertible primitives, the handler answers
\* status 400 with the 'No convertible entities' message at once, and the
\* store stays as it was: no directory made, no file written.
C11_NoEntitiesFails ==
  \A r \in Converted :
    NoPrimitives(reqs[r].dxf.v)
      => /\ reqs[r].pc = "done"
         /\ reqs[r].response =
              Some(Response(400, [error |-> "No convertible entities (LWPOLYLINE/LINE/ARC) found."]))
         /\ store = {}
         /\ dirMade = FALSE

C11_Witness ==
  \E r \in Converted :
    /\ NoPrimitives(reqs[r].dxf.v)
    /\ reqs[r].dxf.v.polylines # <<>>
    /\ reqs[r].response.def
    /\ reqs[r].response.v.status = 400
    /\ store = {}

\* The requests that answered with their record.
Succeeded ==
  {r \in 1..Len(reqs) : reqs[r].response.def /\ reqs[r].response.v.status = 200}

\* C12: every record a successful conversion writes has a non-empty id and
\* name, positive dimensions.width and dimensions.height, a non-empty contour
\* and a positive radius on every arc.
C12_WrittenRecordValid ==
  \A r \in Succeeded :
    LET profile == reqs[r].response.v.body.profile
    IN /\ profile.id # <<>>
       /\ profile.name # <<>>
       /\ profile.dimensions.width > 0
       /\ profile.dimensions.height > 0
       /\ profile.contour # <<>>
       /\ \A i \in 1..Len(profile.contour) :
            profile.contour[i].type = "arc" => profile.contour[i].radius > 0

\* The rotation the selector names.
Rotated(rotate, p) ==
  CASE rotate = "cw90" -> Pt(p.y, -p.x)
    [] rotate = "ccw90" -> Pt(-p.y, p.x)
    [] rotate = "180" -> Pt(-p.x, -p.y)
    [] OTHER -> p

\* The primitives of the request's document with the rotation 'none'.
Unrotated(r) == gatherPrims(reqs[r].dxf.v, "none")

C20_BulgeOfOwnVertex ==
  \A r \in Converted :
    \A s \in PolylineShapes, u \in {Undefined, Some(4)} :
      reqs[r].form.file.v.text = DxfText(u, <<PolylineEntity(s.verts, s.closed)>>)
        => LET pl == reqs[r].dxf.v.polylines[1]
               n  == Len(s.verts)
           IN /\ Len(pl.vertices) = n
              /\ \A i \in 1..n :
                   IF s.verts[i].bulge = 0
                   THEN pl.vertices[i].bulge.st # "num"
                   ELSE pl.vertices[i].bulge = JsNum(s.verts[i].bulge)
              /\ \A i \in 1..Len(reqs[r].prims) :
                   (reqs[r].prims[i].kind = "arc") = (s.verts[i].bulge # 0)

----------------------------------------------------------------------------
(* Concurrent conversion requests *)

\* The number of requests in flight together.
MaxReqs == 2

\* Two drawings whose records differ in length, under two identifiers.
RaceForms ==
  {Form([name |-> <<"b">>, id |-> id, file |-> <<"a", ".", "d", "x", "f">>], "", DxfText(Undefined, es)) :
     id \in {<<"k">>, <<"m">>},
     es \in {<<LineEntity(0, K(1), K(2), K(3))>>, <<PolylineEntity(Triangle.verts, TRUE)>>}}

InitRace ==
  /\ reqs \in {[r \in 1..MaxReqs |-> NewRequest(pick[r])] : pick \in [1..MaxReqs -> RaceForms]}
  /\ store = {}
  /\ dirMade = FALSE
  /\ FrameIdle
  /\ ChainIdle
  /\ UnitsIdle
  /\ LoaderIdle
  /\ SelectorIdle
  /\ ArcIdle

SpecRace == InitRace /\ [][NextRoute]_vars

\* The content of the file at path, <<>> when there is none.
ContentAt(files, path) ==
  IF \E f \in files : f.path = path
  THEN (CHOOSE f \in files : f.path = path).content
  ELSE <<>>

\* C16: requests race without coordination and the last write wins.  The
\* write that completes the last of the requests leaves in the written file
\* exactly the record of the writing request; every request answers with
\* its own record; and a write leaves every file of another identifier as
\* it was.
C16_LastWriteWins ==
  [][\A r \in 1..Len(reqs) :
       (reqs[r].pc = "write" /\ reqs'[r].pc = "done")
         => /\ reqs'[r].response.v.body.profile = reqs[r].profile.v
            /\ \A f \in store : f.path # reqs[r].outPath.v => f \in store'
            /\ (\A q \in 1..Len(reqs) : reqs'[q].pc = "done")
                 => ContentAt(store', reqs[r].outPath.v) = stringify(reqs[r].profile.v)]_vars

----------------------------------------------------------------------------
(* The profile loaders: loadProfiles and loadProfilesSync *)

\* JSON.parse of a file's text: the record when the text is one head block,
\* element blocks and one closing block, in this order; otherwise a
\* SyntaxError.
jsonParse(content) ==
  LET n == Len(content)
  IN IF /\ n >= 2
        /\ content[1].block = "head"
        /\ content[n].block = "close"
        /\ \A i \in 2..(n - 1) : content[i].block = "element"
     THEN Some([schema |-> content[1].schema, id |-> content[1].id, name |-> content[1].name,
                description |-> content[1].description, units |-> content[1].units,
                dimensions |-> content[1].dimensions, start |-> content[1].start,
                contour |-> [i \in 1..(n - 2) |-> content[i + 1].element]])
     ELSE Undefined

\* One zod issue: the field (the issue path joined by '.', with the contour
\* index apart) and the issue code that fixes the constraint message.
Issue(field, index, code) == [field |-> field, index |-> index, code |-> code]

\* The issues of the elements of a contour from i on, in order.
RECURSIVE contourIssues(_, _)
contourIssues(contour, i) ==
  IF i > Len(contour) THEN <<>>
  ELSE (IF contour[i].type = "arc" /\ contour[i].radius <= 0
        THEN <<Issue("contour.radius", i, "too_small")>>
        ELSE <<>>) \o contourIssues(contour, i + 1)

\* profileDefinitionSchema on a parsed record: every issue, in the order of
\* the schema's keys.
schemaIssues(payload) ==
  (IF payload.id = <<>> THEN <<Issue("id", 0, "too_small")>> ELSE <<>>)
    \o (IF payload.name = <<>> THEN <<Issue("name", 0, "too_small")>> ELSE <<>>)
    \o (IF payload.units \notin {"mm", "cm", "m", "in", "ft"}
        THEN <<Issue("units", 0, "invalid_enum_value")>> ELSE <<>>)
    \o (IF payload.dimensions.width <= 0
        THEN <<Issue("dimensions.width", 0, "too_small")>> ELSE <<>>)
    \o (IF payload.dimensions.height <= 0
        THEN <<Issue("dimensions.height", 0, "too_small")>> ELSE <<>>)
    \o (IF payload.contour = <<>> THEN <<Issue("contour", 0, "too_small")>> ELSE <<>>)
    \o contourIssues(payload.contour, 1)

\* What an error tells: its class, the file path its message names (if any)
\* and the issues its message lists.
ErrorOf(name, filePath, issues) == [name |-> name, filePath |-> filePath, issues |-> issues]

\* new ProfileValidationError(filePath, result.error.issues)
validationError(filePath, issues) ==
  ErrorOf("ProfileValidationError", Some(filePath), issues)

Failed(error) == [threw |-> TRUE, error |-> error]
Loaded(data) == [threw |-> FALSE, data |-> data]

\* readProfileFile: safeParse, and ProfileValidationError on failure.
readProfileFile(file) ==
  LET payload == jsonParse(file.content)
  IN IF ~payload.def THEN Failed(ErrorOf("ProfileParseError", Some(file.path), <<>>))
     ELSE IF schemaIssues(payload.v) # <<>>
     THEN Failed(validationError(file.path, schemaIssues(payload.v)))
     ELSE Loaded(payload.v)

\* readProfileFileSync: parse, which throws zod's own ZodError.
readProfileFileSync(file) ==
  LET payload == jsonParse(file.content)
  IN IF ~payload.def THEN Failed(ErrorOf("ProfileParseError", Some(file.path), <<>>))
     ELSE IF schemaIssues(payload.v) # <<>>
     THEN Failed(ErrorOf("ZodError", Undefined, schemaIssues(payload.v)))
     ELSE Loaded(payload.v)

SchemaJson == <<"s", "c", "h", "e", "m", "a">> \o DotJson

fileName(file) == file.path[Len(file.path)]

\* isProfileJson, with includeSchema at its default, false.
isProfileJson(file) ==
  LET name == fileName(file)
      n    == Len(name)
  IN /\ n >= 5
     /\ [i \in 1..5 |-> toLowerCase(name[n - 5 + i])] = DotJson
     /\ name # SchemaJson

\* a.name.localeCompare(b.name) < 0 on the model's file names: letters in
\* alphabetical order, the first difference decides.
charRank(c) ==
  IF \E i \in 1..Len(LowerCase) : LowerCase[i] = toLowerCase(c)
  THEN CHOOSE i \in 1..Len(LowerCase) : LowerCase[i] = toLowerCase(c)
  ELSE 0

RECURSIVE nameBefore(_, _)
nameBefore(a, b) ==
  IF a = <<>> THEN b # <<>>
  ELSE IF b = <<>> THEN FALSE
  ELSE IF charRank(Head(a)) # charRank(Head(b)) THEN charRank(Head(a)) < charRank(Head(b))
  ELSE nameBefore(Tail(a), Tail(b))

\* filterProfileFiles: the profile files of the directory, sorted by name.
RECURSIVE sortedFiles(_)
sortedFiles(files) ==
  IF files = {} THEN <<>>
  ELSE LET first == CHOOSE f \in files :
                      \A g \in files \ {f} : nameBefore(fileName(f), fileName(g))
       IN <<first>> \o sortedFiles(files \ {first})

filterProfileFiles(files) == sortedFiles({f \in files : isProfileJson(f)})

\* loadProfiles: Promise.all over the reads.  It resolves with every record
\* in file order, or rejects with the error of a read that failed: the one
\* that fails first in time, which may be any of them.
LoadProfiles ==
  /\ lCalls # <<>>
  /\ Head(lCalls) = "loadProfiles"
  /\ LET files   == filterProfileFiles(store)
         results == [i \in 1..Len(files) |-> readProfileFile(files[i])]
     IN IF \E i \in 1..Len(files) : results[i].threw
        THEN \E i \in 1..Len(files) :
               /\ results[i].threw
               /\ lOut' = Append(lOut, [loader |-> "loadProfiles", out |-> results[i]])
        ELSE lOut' = Append(lOut, [loader |-> "loadProfiles",
                                   out |-> Loaded([i \in 1..Len(files) |-> results[i].data])])
  /\ lCalls' = Tail(lCalls)
  /\ UNCHANGED <<frameVars, chainVars, unitVars, routeVars, selVars, arcVars>>

\* loadProfilesSync: the reads one after the other; the first that throws
\* ends the call.
LoadProfilesSync ==
  /\ lCalls # <<>>
  /\ Head(lCalls) = "loadProfilesSync"
  /\ LET files   == filterProfileFiles(store)
         results == [i \in 1..Len(files) |-> readProfileFileSync(files[i])]
         failing == {i \in 1..Len(files) : results[i].threw}
     IN IF failing # {}
        THEN lOut' = Append(lOut, [loader |-> "loadProfilesSync",
                                   out |-> results[CHOOSE i \in failing : \A j \in failing : i <= j]])
        ELSE lOut' = Append(lOut, [loader |-> "loadProfilesSync",
                                   out |-> Loaded([i \in 1..Len(files) |-> results[i].data])])
  /\ lCalls' = Tail(lCalls)
  /\ UNCHANGED <<frameVars, chainVars, unitVars, routeVars, selVars, arcVars>>

NextLoad == LoadProfiles \/ LoadProfilesSync

\* The largest number of loader calls in a run.
MaxLoads == 2

\* A record as a file of the store holds it.
StoredProfile(id, name, width, height, contour) ==
  [schema |-> "./schema.json", id |-> id, name |-> name, description |-> "Imported from DXF",
   units |-> "in", dimensions |-> [width |-> width, height |-> height],
   start |-> Pt(0, 0), contour |-> contour]

StoredFile(letter, content) ==
  [path |-> Append(profilesDir, <<letter>> \o DotJson), content |-> content]

\* The files a store may hold: a valid record, records violating one and
\* several constraints, a text that is not JSON, and the schema file.
StoreFiles ==
  { StoredFile("a", stringify(StoredProfile(<<"a">>, <<"A">>, K(2), K(1),
                                <<[type |-> "line", to |-> Pt(K(2), K(1))]>>))),
    StoredFile("b", stringify(StoredProfile(<<"b">>, <<"B">>, 0, K(1),
                                <<[type |-> "line", to |-> Pt(0, K(1))]>>))),
    StoredFile("c", stringify(StoredProfile(<<"c">>, <<>>, 0, 0, <<>>))),
    StoredFile("d", stringify(StoredProfile(<<"d">>, <<"D">>, K(2), K(1),
                                <<[type |-> "line", to |-> Pt(K(2), 0)],
                                  [type |-> "arc", to |-> Pt(K(2), K(1)), radius |-> 0,
                                   clockwise |-> FALSE, largeArc |-> FALSE,
                                   metadata |-> [center |-> Pt(K(2), 0)]]>>))),
    StoredFile("e", <<[block |-> "close"]>>),
    [path |-> Append(profilesDir, SchemaJson), content |-> <<[block |-> "close"]>>] }

InitLoad ==
  /\ store \in SUBSET StoreFiles
  /\ lCalls \in (SeqsUpTo({"loadProfiles", "loadProfilesSync"}, MaxLoads) \ {<<>>})
  /\ lOut = <<>>
  /\ reqs = <<>>
  /\ dirMade = TRUE
  /\ FrameIdle
  /\ ChainIdle
  /\ UnitsIdle
  /\ SelectorIdle
  /\ ArcIdle

SpecLoad == InitLoad /\ [][NextLoad]_vars

----------------------------------------------------------------------------
(* Properties of the loaders *)

\* The fields of a record that violate the schema.
ViolatedFields(payload) ==
  (IF payload.id = <<>> THEN {Issue("id", 0, "too_small")} ELSE {})
    \cup (IF payload.name = <<>> THEN {Issue("name", 0, "too_small")} ELSE {})
    \cup (IF payload.dimensions.width <= 0
          THEN {Issue("dimensions.width", 0, "too_small")} ELSE {})
    \cup (IF payload.dimensions.height <= 0
          THEN {Issue("dimensions.height", 0, "too_small")} ELSE {})
    \cup (IF payload.contour = <<>> THEN {Issue("contour", 0, "too_small")} ELSE {})
    \cup {Issue("contour.radius", i, "too_small") :
            i \in {j \in 1..Len(payload.contour) :
                     payload.contour[j].type = "arc" /\ payload.contour[j].radius <= 0}}

\* The loader calls that failed on a file violating the schema.
SchemaFailures ==
  {k \in 1..Len(lOut) : /\ lOut[k].out.threw
                        /\ lOut[k].out.error.name \in {"ProfileValidationError", "ZodError"}}

\* C13: when a stored file violates the schema, the error of the load, from
\* loadProfiles and from loadProfilesSync alike, names the path of a
\* violating file and lists every violated field of that file.
C13_ErrorNamesFileAndAllIssues ==
  \A k \in SchemaFailures :
    LET error == lOut[k].out.error
    IN \E f \in store :
         /\ jsonParse(f.content).def
         /\ error.filePath = Some(f.path)
         /\ {error.issues[i] : i \in 1..Len(error.issues)} = ViolatedFields(jsonParse(f.content).v)
         /\ error.issues # <<>>

----------------------------------------------------------------------------
(* generateFrameSvg: the margin option, the event boundaries, bends *)

\* The margin ratios a caller asks for, in hundredths, besides 0.
MarginRatios == {1, 12, 50, 100}

\* Pairs of calls that differ in marginRatio only: first 0, then positive.
MarginInputs ==
  {<<[painting |-> a.painting, profile |-> a.profile,
      options |-> Some([marginRatio |-> Some(0), edgePad |-> e])],
     [painting |-> a.painting, profile |-> a.profile,
      options |-> Some([marginRatio |-> Some(m), edgePad |-> e])]>> :
     a \in RepeatInputs, e \in {Undefined, Some(0)}, m \in MarginRatios}

InitMargin ==
  /\ fCalls \in MarginInputs
  /\ fResults = <<>>
  /\ ChainIdle
  /\ UnitsIdle
  /\ RouteIdle
  /\ LoaderIdle
  /\ SelectorIdle
  /\ ArcIdle

SpecMargin == InitMargin /\ [][Next]_vars

\* C17: a positive marginRatio adds whitespace to the returned viewBox: the
\* viewBox of a call with marginRatio > 0 is wider and higher than the
\* viewBox of the same call with marginRatio = 0.
C17_MarginEnlargesViewBox ==
  \A i, j \in Returned :
    (/\ fResults[i].painting = fResults[j].painting
     /\ fResults[i].profile = fResults[j].profile
     /\ fResults[i].options.v.edgePad = fResults[j].options.v.edgePad
     /\ fResults[i].options.v.marginRatio = Some(0)
     /\ fResults[j].options.v.marginRatio.v > 0)
      => /\ fResults[j].out.viewBox[3] > fResults[i].out.viewBox[3]
         /\ fResults[j].out.viewBox[4] > fResults[i].out.viewBox[4]

\* The boundaries of a contour that are events: an arc on either side, or
\* two lines whose atan2 angles differ by 1e-3 or more.
EventBoundaries(profile) ==
  LET segments == computeSegments(profile)
  IN {i \in 1..(Len(segments) - 1) :
        \/ segments[i].segment.kind = "arc"
        \/ segments[i + 1].segment.kind = "arc"
        \/ Abs(angleOf(segments[i].vector) - angleOf(segments[i + 1].vector)) >= 1000}

BendSegments ==
  { LineTo(Whole(50), 2000), LineTo(Whole(50), -2000), LineTo(Whole(50), 0),
    LineTo(-Whole(50), 2000), LineTo(-Whole(50), -2000), LineTo(-Whole(50), 0),
    LineTo(0, Whole(30)) }

BendInputs ==
  {[painting |-> Painting460x610, profile |-> [origin |-> Undefined, segments |-> q],
    options |-> Undefined] : q \in SeqsUpTo(BendSegments, MaxSegs)}

InitBend ==
  /\ fCalls \in {<<a>> : a \in BendInputs}
  /\ fResults = <<>>
  /\ ChainIdle
  /\ UnitsIdle
  /\ RouteIdle
  /\ LoaderIdle
  /\ SelectorIdle
  /\ ArcIdle

SpecBend == InitBend /\ [][Next]_vars

\* The angle between the directions of two vectors, in micro-radians, in
\* [0, pi].
DirectionDifference(v, w) ==
  LET d == Abs(angleOf(v) - angleOf(w))
  IN IF d > PiMicro THEN 2 * PiMicro - d ELSE d

\* C19: adjacent lines whose directions differ by less than 1e-3 rad are
\* classified 'coplanar-line' whatever their common direction, and a contour
\* whose every boundary is such a pair yields no rectangle.
C19_SmallBendIsCoplanar ==
  \A k \in Returned :
    LET segments == computeSegments(fResults[k].profile)
        straight == {i \in 1..(Len(segments) - 1) :
                       /\ segments[i].segment.kind = "line"
                       /\ segments[i + 1].segment.kind = "line"
                       /\ DirectionDifference(segments[i].vector, segments[i + 1].vector) < 1000}
    IN /\ \A i \in straight : reasonAt(segments, i) = "coplanar-line"
       /\ straight = 1..(Len(segments) - 1) => fResults[k].out.rectangles = <<>>

----------------------------------------------------------------------------
(* Malformed vertices and entities in the uploaded drawing *)

\* The number of vertex records in a polyline with malformed vertices.
MaxVertices == 3

\* A value line that begins with a number and goes on with other text, such
\* as "1abc": parseFloat and parseInt read the number and stop at the text.
NumThenText(n, s) == [num |-> TRUE, s |-> s, n |-> n]

\* The k-th vertex of a polyline has its own x and its own y; its record is
\* well formed, lacks the x or the y line, or holds a word in its place.
VertexKinds == {"ok", "noX", "noY", "wordX", "wordY"}
VertexX(k) == K(k)
VertexY(k) == K(k + 10)

VertexPairs(k, kind) ==
  (CASE kind = "noX" -> <<>>
     [] kind = "wordX" -> <<Pair(10, Str("abc"))>>
     [] OTHER -> <<Pair(10, NumV(VertexX(k)))>>)
    \o (CASE kind = "noY" -> <<>>
          [] kind = "wordY" -> <<Pair(20, Str("abc"))>>
          [] OTHER -> <<Pair(20, NumV(VertexY(k)))>>)

VertexKindSeqs == SeqsUpTo(VertexKinds, MaxVertices)

\* An open LWPOLYLINE whose k-th vertex record is of kinds[k].
MalformedPolyline(kinds) ==
  <<Pair(0, Str("LWPOLYLINE")), Pair(90, NumV(K(Len(kinds)))), Pair(70, NumV(0))>>
    \o flatten([k \in 1..Len(kinds) |-> VertexPairs(k, kinds[k])])

\* The entities of the drawings: the pairs of the entity and what a parser
\* that keeps exactly the well-formed LINEs and ARCs holds after it.
EntityCase(pairs, lines, arcs) == [pairs |-> pairs, lines |-> lines, arcs |-> arcs]

EntityCases ==
  { EntityCase(LineEntity(0, 0, 0, K(1)),
               <<[x1 |-> 0, y1 |-> 0, x2 |-> 0, y2 |-> K(1)]>>, <<>>),
    EntityCase(LineEntity(0, K(1), K(2), K(3)),
               <<[x1 |-> 0, y1 |-> K(1), x2 |-> K(2), y2 |-> K(3)]>>, <<>>),
    EntityCase(<<Pair(0, Str("LINE")), Pair(10, NumV(0)), Pair(20, NumV(0)),
                 Pair(11, NumV(K(1)))>>, <<>>, <<>>),
    EntityCase(<<Pair(0, Str("LINE")), Pair(10, NumV(0)), Pair(20, Str("abc")),
                 Pair(11, NumV(K(1))), Pair(21, NumV(K(1)))>>, <<>>, <<>>),
    EntityCase(<<Pair(0, Str("LINE")), Pair(10, NumThenText(K(1), "abc")), Pair(20, NumV(0)),
                 Pair(11, NumV(K(2))), Pair(21, NumV(K(1)))>>, <<>>, <<>>),
    EntityCase(ArcEntity(K(1), K(1), K(1), K(180), K(270)), <<>>,
               <<[cx |-> K(1), cy |-> K(1), r |-> K(1), start |-> K(180), end |-> K(270)]>>),
    EntityCase(<<Pair(0, Str("ARC")), Pair(10, NumV(K(1))), Pair(20, NumV(K(1))),
                 Pair(40, NumV(K(1))), Pair(50, NumV(K(180)))>>, <<>>, <<>>),
    EntityCase(<<Pair(0, Str("ARC")), Pair(10, NumV(K(1))), Pair(20, NumV(K(1))),
                 Pair(40, Str("abc")), Pair(50, NumV(K(180))), Pair(51, NumV(K(270)))>>,
               <<>>, <<>>),
    EntityCase(<<Pair(0, Str("CIRCLE")), Pair(10, NumV(0)), Pair(20, NumV(0)),
                 Pair(40, NumV(K(1)))>>, <<>>, <<>>) }

EntityCaseSeqs == SeqsUpTo(EntityCases, MaxEntities)

CasesText(cases) == DxfText(Undefined, [k \in 1..Len(cases) |-> cases[k].pairs])

ParseTexts ==
  {DxfText(Undefined, <<MalformedPolyline(kinds)>>) : kinds \in VertexKindSeqs}
    \cup {CasesText(cases) : cases \in EntityCaseSeqs}

\* One request with one of the drawings, on an empty store.
InitParse ==
  /\ reqs \in {<<NewRequest(Form([name |-> <<"b">>, id |-> <<"k">>,
                                   file |-> <<"a", ".", "d", "x", "f">>], "", t))>> :
                 t \in ParseTexts}
  /\ store = {}
  /\ dirMade = FALSE
  /\ FrameIdle
  /\ ChainIdle
  /\ UnitsIdle
  /\ LoaderIdle
  /\ SelectorIdle
  /\ ArcIdle

SpecParse == InitParse /\ [][NextRoute]_vars

\* The well-formed vertices of the records of kinds, in input order.
WellFormedVertices(kinds) ==
  LET all == [k \in 1..Len(kinds) |-> [kind |-> kinds[k], x |-> VertexX(k), y |-> VertexY(k)]]
      IsOk(v) == v.kind = "ok"
      kept == SelectSeq(all, IsOk)
  IN [k \in 1..Len(kept) |-> Pt(kept[k].x, kept[k].y)]

\* C21: in a LWPOLYLINE a vertex whose x or y is missing or not a number is
\* dropped and the other vertices are unaffected: the parsed vertices are
\* exactly the well-formed ones in input order, each with its own x and y.
C21_OnlyWellFormedVertices ==
  \A r \in Converted :
    \A kinds \in VertexKindSeqs :
      reqs[r].form.file.v.text = DxfText(Undefined, <<MalformedPolyline(kinds)>>)
        => LET parsed == reqs[r].dxf.v.polylines[1].vertices
           IN [k \in 1..Len(parsed) |-> Pt(parsed[k].x, parsed[k].y)] = WellFormedVertices(kinds)

\* C22: parseDxf does not throw, and its lines and arcs are exactly the
\* well-formed LINE and ARC entities of the ENTITIES section in input order:
\* an entity of another type, one that lacks a required code and one with a
\* value that is not a number add nothing, and what follows is still parsed.
C22_OnlyWellFormedEntities ==
  \A r \in Converted :
    \A cases \in EntityCaseSeqs :
      reqs[r].form.file.v.text = CasesText(cases)
        => /\ reqs[r].dxf.v.lines = flatten([k \in 1..Len(cases) |-> cases[k].lines])
           /\ reqs[r].dxf.v.arcs = flatten([k \in 1..Len(cases) |-> cases[k].arcs])

----------------------------------------------------------------------------
(* chainPrimitives: the start of the chain, its direction, its length *)

\* p is no farther from the origin than q.
NoFarther(p, q) ==
  LET d == HypotSquared(p)
      e == HypotSquared(q)
  IN d[1] < e[1] \/ (d[1] = e[1] /\ d[2] <= e[2])

\* q is p turned round: ends exchanged, and for an arc the sweep direction
\* negated with radius, largeArc and centre kept.
IsReversalOf(q, p) ==
  /\ q.kind = p.kind
  /\ q.start = p.end
  /\ q.end = p.start
  /\ p.kind = "arc" =>
       /\ q.radius = p.radius
       /\ q.largeArc = p.largeArc
       /\ q.center = p.center
       /\ q.clockwise = ~p.clockwise

\* C23: the chain starts with a primitive one of whose endpoints is nearest
\* to the origin among all endpoints of all input primitives, turned so that
\* this point is the first start point of the chain.
C23_StartsNearestOrigin ==
  cPc # "idle" =>
    /\ \E i \in 1..Len(cPrims) : cOut[1] = cPrims[i] \/ IsReversalOf(cOut[1], cPrims[i])
    /\ \A i \in 1..Len(cPrims) :
         /\ NoFarther(cOut[1].start, cPrims[i].start)
         /\ NoFarther(cOut[1].start, cPrims[i].end)

\* A chain whose first element is a later primitive of the list, reversed,
\* of a drawing away from the origin.
C23_Witness ==
  /\ cPc = "done"
  /\ \A i \in 1..Len(cPrims) : cOut[1] # cPrims[i]
  /\ \E i \in 2..Len(cPrims) : IsReversalOf(cOut[1], cPrims[i])
  /\ cOut[1].start # Pt(0, 0)
  /\ \E i \in 1..Len(cPrims) : ~NoFarther(cPrims[i].start, cOut[1].start)

\* C24: the chain is a connected directed path: each element starts within
\* 1e-5 of the end of the one before; every element is an input primitive as
\* given or reversed, and a reversed one has start and end exchanged and, if
\* an arc, clockwise negated with radius, largeArc and centre kept.
C24_ConnectedDirectedPath ==
  /\ \A k \in 1..(Len(cOut) - 1) :
       /\ Abs(cOut[k + 1].start.x - cOut[k].end.x) <= 2
       /\ Abs(cOut[k + 1].start.y - cOut[k].end.y) <= 2
       /\ (cOut[k + 1].start.x - cOut[k].end.x) * (cOut[k + 1].start.x - cOut[k].end.x)
            + (cOut[k + 1].start.y - cOut[k].end.y) * (cOut[k + 1].start.y - cOut[k].end.y) <= 4
  /\ \A k \in 1..Len(cOut) :
       \E i \in 1..Len(cPrims) : cOut[k] = cPrims[i] \/ IsReversalOf(cOut[k], cPrims[i])

\* A returned chain of three elements whose second is an arc that was
\* appended reversed.
C24_Witness ==
  /\ cPc = "done"
  /\ Len(cOut) = 3
  /\ cOut[2].kind = "arc"
  /\ \A i \in 1..Len(cPrims) : cOut[2] # cPrims[i]
  /\ \E i \in 1..Len(cPrims) : IsReversalOf(cOut[2], cPrims[i])

\* chainPrimitives is synchronous code: once called, every iteration of its
\* loop that can run does run, and so does its return.
SpecChainLive ==
  InitChain /\ [][NextChain]_vars /\ WF_vars(ChainExtend) /\ WF_vars(ChainStop)

\* The number of primitives marked used.
UsedCount(used) == Cardinality({i \in 1..Len(used) : used[i]})

\* The chain takes each input primitive at most once: its elements are the
\* primitives, as given or reversed, of distinct positions of the list.
TakenOnce(prims, out) ==
  \E f \in [1..Len(out) -> 1..Len(prims)] :
    /\ \A j, k \in 1..Len(out) : f[j] = f[k] => j = k
    /\ \A k \in 1..Len(out) : out[k] = prims[f[k]] \/ IsReversalOf(out[k], prims[f[k]])

\* C28: a call of chainPrimitives on a non-empty input returns: every
\* iteration that extends the chain marks exactly one unused primitive as
\* used, so there are at most n-1 of them; the returned chain has between 1
\* and n elements and holds no input primitive more than once.
C28_ChainTerminates ==
  /\ (cPc = "loop") ~> (cPc = "done")
  /\ [][(cPc = "loop" /\ cOut' # cOut)
          => /\ UsedCount(cUsed') = UsedCount(cUsed) + 1
             /\ \A i \in 1..Len(cUsed) : cUsed[i] => cUsed'[i]
             /\ Len(cOut') = Len(cOut) + 1
             /\ Len(cOut') <= Len(cPrims)]_vars
  /\ [](cPc = "done" =>
          /\ Len(cOut) \in 1..Len(cPrims)
          /\ TakenOnce(cPrims, cOut))

\* A call that returned after n-1 iterations, with every primitive taken.
C28_Witness ==
  /\ cPc = "done"
  /\ Len(cPrims) = 4
  /\ Len(cOut) = 4
  /\ UsedCount(cUsed) = 4

----------------------------------------------------------------------------
(* contour.ts: the adapter from a stored profile to the engine's contour *)

\* The adapter that copies the absolute end points instead of taking
\* differences.
toProfileContourAbsolute(definition) ==
  [origin |-> Some(OrElse(definition.start, Pt(0, 0))),
   segments |->
     [i \in 1..Len(definition.contour) |->
        LET seg == definition.contour[i]
        IN IF seg.type = "line" THEN LineTo(seg.to.x, seg.to.y)
           ELSE ArcTo(seg.to.x, seg.to.y, seg.radius, Some(seg.clockwise))]]

\* toProfileContour: `prev` starts at the start point and moves to each
\* command's absolute end point; each segment is the difference to `prev`.
toProfileContour(definition) ==
  LET start == OrElse(definition.start, Pt(0, 0))
      prev(i) == IF i = 1 THEN start ELSE definition.contour[i - 1].to
  IN [origin |-> Some(start),
      segments |->
        [i \in 1..Len(definition.contour) |->
           LET seg == definition.contour[i]
               dx  == seg.to.x - prev(i).x
               dy  == seg.to.y - prev(i).y
           IN IF seg.type = "line" THEN LineTo(dx, dy)
              ELSE ArcTo(dx, dy, seg.radius, Some(seg.clockwise))]]

----------------------------------------------------------------------------
(* FrameProfileSelector: painting size, display units, profile selection *)

MaxItems == 2

DefLine(x, y) == [type |-> "line", to |-> Pt(x, y)]
DefArc(x, y, r, cw) == [type |-> "arc", to |-> Pt(x, y), radius |-> r, clockwise |-> cw]

\* Stored profiles: an L step from the default start, a stepped profile with
\* a clockwise arc from a start point of its own, and a cove with a
\* counter-clockwise arc that comes back towards the painting.
StepProfile ==
  [id |-> <<"s">>, start |-> Undefined,
   contour |-> <<DefLine(Whole(50), 0), DefLine(Whole(50), Whole(30)), DefLine(0, Whole(30))>>]
OgeeProfile ==
  [id |-> <<"o">>, start |-> Some(Pt(Whole(2), Whole(1))),
   contour |-> <<DefLine(Whole(22), Whole(1)),
                 DefArc(Whole(52), Whole(31), Whole(30), TRUE),
                 DefLine(Whole(52), Whole(41))>>]
CoveProfile ==
  [id |-> <<"c">>, start |-> Some(Pt(0, Whole(5))),
   contour |-> <<DefArc(Whole(30), Whole(35), Whole(30), FALSE),
                 DefLine(Whole(10), Whole(35))>>]
ProfileDefs == {StepProfile, OgeeProfile, CoveProfile}

\* What a size field can hold when its change handler runs: nothing (the
\* field was cleared), or a number in the display units.
TypedValues == {Undefined, Some(0), Some(-Whole(5)), Some(Whole(10)), Some(Whole(20))}

\* Number(e.target.value): Number('') is 0.
NumberOf(typed) == OrElse(typed, 0)

\* mm / 25.4 and inches * 25.4 at the model's resolution.
mmToInches(mm) == RoundDiv(mm * 10, 254)
mmFromDisplay(inputUnits, val) == IF inputUnits = "in" THEN RoundDiv(val * 254, 10) ELSE val

Max(a, b) == IF a >= b THEN a ELSE b

\* items.find((p) => p.id === selectedId) ?? items[0]
selectedOf(items, selectedId) ==
  LET hits == {i \in 1..Len(items) : items[i].id = selectedId}
  IN IF hits # {} THEN Some(items[CHOOSE i \in hits : \A j \in hits : i <= j])
     ELSE IF items # <<>> THEN Some(items[1])
     ELSE Undefined

\* One render of the component: the state, the memoised contour of the
\* selected profile, the painting in inches and the frame the engine returns
\* for them.
renderWith(items, selectedId, inputUnits, paintingMm, selected, contour, paintingInches) ==
  [items |-> items, selectedId |-> selectedId, inputUnits |-> inputUnits,
   paintingMm |-> paintingMm, selected |-> selected, contour |-> contour,
   paintingInches |-> paintingInches,
   frame |-> generateFrameSvg(paintingInches, contour,
               Some([marginRatio |-> Some(0), edgePad |-> Some(2000)]))]

contourOf(selected) ==
  IF selected.def THEN toProfileContour(selected.v)
  ELSE [origin |-> Undefined, segments |-> <<>>]

Rendered(items, selectedId, inputUnits, paintingMm) ==
  CHOOSE r \in UNION {
      {renderWith(i, selectedId, inputUnits, mm, selected, contour,
                  [width |-> mmToInches(mm.width), height |-> mmToInches(mm.height)])
         : contour \in {contourOf(selected)}}
      : i \in {items}, mm \in {paintingMm}, selected \in {selectedOf(items, selectedId)}} : TRUE

\* A render that threw unmounts the component: no handler runs after it.
Mounted == ~selector.frame.threw

SetInputUnits(u) ==
  /\ Mounted
  /\ selector' = Rendered(selector.items, selector.selectedId, u, selector.paintingMm)
  /\ UNCHANGED <<frameVars, chainVars, unitVars, routeVars, loadVars, arcVars>>

EditWidth(typed) ==
  /\ Mounted
  /\ selector' = Rendered(selector.items, selector.selectedId, selector.inputUnits,
                   [selector.paintingMm EXCEPT
                      !.width = Max(0, mmFromDisplay(selector.inputUnits, NumberOf(typed)))])
  /\ UNCHANGED <<frameVars, chainVars, unitVars, routeVars, loadVars, arcVars>>

EditHeight(typed) ==
  /\ Mounted
  /\ selector' = Rendered(selector.items, selector.selectedId, selector.inputUnits,
                   [selector.paintingMm EXCEPT
                      !.height = Max(0, mmFromDisplay(selector.inputUnits, NumberOf(typed)))])
  /\ UNCHANGED <<frameVars, chainVars, unitVars, routeVars, loadVars, arcVars>>

SelectProfile(id) ==
  /\ Mounted
  /\ selector' = Rendered(selector.items, id, selector.inputUnits, selector.paintingMm)
  /\ UNCHANGED <<frameVars, chainVars, unitVars, routeVars, loadVars, arcVars>>

\* onUploaded: the converted profile joins the list and becomes the selection.
Uploaded(p) ==
  /\ Mounted
  /\ Len(selector.items) < MaxItems
  /\ selector' = Rendered(Append(selector.items, p), p.id, selector.inputUnits,
                   selector.paintingMm)
  /\ UNCHANGED <<frameVars, chainVars, unitVars, routeVars, loadVars, arcVars>>

\* The first render: the profiles handed to the page, the first one
\* selected, inches, 460 mm x 610 mm.
InitSelector ==
  /\ \E profiles \in {<<>>, <<StepProfile>>, <<OgeeProfile, StepProfile>>} :
       selector = Rendered(profiles,
                    IF profiles # <<>> THEN profiles[1].id ELSE <<>>,
                    "in", [width |-> Whole(460), height |-> Whole(610)])
  /\ FrameIdle
  /\ ChainIdle
  /\ UnitsIdle
  /\ RouteIdle
  /\ LoaderIdle
  /\ ArcIdle

NextSelector ==
  \/ \E u \in {"in", "mm"} : SetInputUnits(u)
  \/ \E typed \in TypedValues : EditWidth(typed)
  \/ \E typed \in TypedValues : EditHeight(typed)
  \/ \E i \in 1..Len(selector.items) : SelectProfile(selector.items[i].id)
  \/ \E p \in ProfileDefs : Uploaded(p)

SpecSelector == InitSelector /\ [][NextSelector]_vars

C27_EngineGetsPositivePainting ==
  /\ selector.paintingInches.width > 0
  /\ selector.paintingInches.height > 0
  /\ ~selector.frame.threw

----------------------------------------------------------------------------
(* generateFrameSvg: the highlightBands list *)

\* C30: every call that returns, whatever the painting and the contour,
\* returns the empty highlightBands list; a direction change of the contour
\* shows only as the offset of a rectangle.
C30_HighlightBandsEmpty ==
  \A k \in Returned :
    /\ fResults[k].out.highlightBands = <<>>
    /\ \A i \in DirectionChanges(fResults[k].profile) :
         eventAt(computeSegments(fResults[k].profile)[i]) \in RectOffsets(fResults[k].out)

\* A call with two direction changes at different offsets has returned.
C30_Witness ==
  \E k \in Returned :
    /\ fResults[k].profile.segments
         = <<LineTo(Whole(50), 0), ArcTo(Whole(30), Whole(30), Whole(30), Some(TRUE)),
             LineTo(0, Whole(30))>>
    /\ Len(fResults[k].out.rectangles) = 2
    /\ fResults[k].out.highlightBands = <<>>

----------------------------------------------------------------------------
(* chooseArcCenter: the converter's copy and the preview's copy *)

\* The preview's copy of chooseArcCenter, with its own closures fits and
\* sweepFor (here fitsAt, sweepAt) and the final comparison through s1, s2.
chooseArcCenterPreview(a, b, radius, clockwise, largeArc) ==
  LET dx == b.x - a.x
      dy == b.y - a.y
      d  == Hypot(dx, dy)
      mx == Half(a.x + b.x)
      my == Half(a.y + b.y)
      h  == IF 2 * radius <= d THEN 0
            ELSE 50 * ISqrt((radius \div 50) * (radius \div 50) - (d \div 100) * (d \div 100))
      ox == 100 * RoundDiv(-Hundredth(dy) * Hundredth(h), Hundredth(d))
      oy == 100 * RoundDiv(Hundredth(dx) * Hundredth(h), Hundredth(d))
      c1 == IF h = 0 THEN Pt(mx, my) ELSE Pt(mx + ox, my + oy)
      c2 == IF h = 0 THEN Pt(mx, my) ELSE Pt(mx - ox, my - oy)
      sweepAt(c) ==
        LET a1 == Atan2(a.y - c.y, a.x - c.x)
            a2 == Atan2(b.y - c.y, b.x - c.x)
            s  == IF clockwise THEN a1 - a2 ELSE a2 - a1
        IN IF s < 0 THEN s + 2 * PiMicro ELSE s
      fitsAt(c) == (sweepAt(c) > PiMicro - 1) = largeArc
  IN IF fitsAt(c1) /\ ~fitsAt(c2) THEN c1
     ELSE IF fitsAt(c2) /\ ~fitsAt(c1) THEN c2
     ELSE LET s1 == sweepAt(c1)
              s2 == sweepAt(c2)
          IN IF s1 <= s2 THEN c1 ELSE c2

\* Chords from two start points: along the axes, diagonal, and a 3-4-5 one.
ArcChords ==
  {[a |-> a, b |-> shiftPt(a, v[1], v[2])] :
     a \in {P(0, 0), P(1, 2)},
     v \in {<<2, 0>>, <<0, 2>>, <<-2, 0>>, <<1, 1>>, <<-1, 1>>, <<3, 4>>}}

ChordLength(e) == Hypot(e.b.x - e.a.x, e.b.y - e.a.y)

\* Radii for a chord: half the chord (the semicircle), the chord itself, 5,
\* and 0.5, which is shorter than half of every chord.
ArcRadii(e) == {Half(ChordLength(e)), ChordLength(e), K(5), Half(K(1))}

ArcInputs ==
  UNION {{[a |-> e.a, b |-> e.b, radius |-> r, clockwise |-> cw, largeArc |-> lg] :
            r \in ArcRadii(e), cw \in BOOLEAN, lg \in BOOLEAN} : e \in ArcChords}

\* One pair of calls: the same arguments go to both copies.
CallChooseArcCenter ==
  /\ arcCalls # <<>>
  /\ \E in \in {Head(arcCalls)} :
     \E server \in {chooseArcCenter(in.a, in.b, in.radius, in.clockwise, in.largeArc)} :
     \E preview \in {chooseArcCenterPreview(in.a, in.b, in.radius, in.clockwise, in.largeArc)} :
       arcResults' = Append(arcResults,
                       [a |-> in.a, b |-> in.b, radius |-> in.radius,
                        clockwise |-> in.clockwise, largeArc |-> in.largeArc,
                        server |-> server, preview |-> preview])
  /\ arcCalls' = Tail(arcCalls)
  /\ UNCHANGED <<frameVars, chainVars, unitVars, routeVars, loadVars, selVars>>

InitArc ==
  /\ arcCalls \in {<<in>> : in \in ArcInputs}
  /\ arcResults = <<>>
  /\ FrameIdle
  /\ ChainIdle
  /\ UnitsIdle
  /\ RouteIdle
  /\ LoaderIdle
  /\ SelectorIdle

NextArc == CallChooseArcCenter

SpecArc == InitArc /\ [][NextArc]_vars

\* The distance of a centre from an end point equals the radius, to the
\* resolution at which the centre is computed.
AtRadius(c, p, radius) == Abs(Hypot(c.x - p.x, c.y - p.y) - radius) <= 100

\* The mirror image of a centre in the chord: the other point at the same
\* distance from both ends.
OtherCenter(r, c) == Pt(r.a.x + r.b.x - c.x, r.a.y + r.b.y - c.y)

\* C26: for distinct end points and a radius of at least half the chord, the
\* centre returned lies at the radius from both ends; if exactly one of the
\* two such points gives a sweep of the requested large/small class in the
\* requested direction, it is that one, and otherwise it is the one with the
\* smaller sweep; the converter's copy and the preview's copy return the same
\* centre.
C26_ArcCenterChoice ==
  \A k \in 1..Len(arcResults) :
    LET r     == arcResults[k]
        c     == r.server
        other == OtherCenter(r, c)
    IN /\ r.preview = r.server
       /\ (r.a # r.b /\ 2 * r.radius >= Hypot(r.b.x - r.a.x, r.b.y - r.a.y)) =>
            /\ AtRadius(c, r.a, r.radius)
            /\ AtRadius(c, r.b, r.radius)
            /\ (fits(r.a, r.b, c, r.clockwise, r.largeArc)
                  # fits(r.a, r.b, other, r.clockwise, r.largeArc))
                 => fits(r.a, r.b, c, r.clockwise, r.largeArc)
            /\ (fits(r.a, r.b, c, r.clockwise, r.largeArc)
                  = fits(r.a, r.b, other, r.clockwise, r.largeArc))
                 => sweepFor(r.a, r.b, c, r.clockwise) <= sweepFor(r.a, r.b, other, r.clockwise)

\* A large counter-clockwise arc over a chord of 2 with radius 2 was asked
\* for: the two candidates differ and the one below the chord was returned.
C26_Witness ==
  \E k \in 1..Len(arcResults) :
    /\ arcResults[k].a = P(0, 0)
    /\ arcResults[k].b = P(2, 0)
    /\ arcResults[k].radius = K(2)
    /\ ~arcResults[k].clockwise
    /\ arcResults[k].largeArc
    /\ arcResults[k].server # OtherCenter(arcResults[k], arcResults[k].server)
    /\ arcResults[k].preview = arcResults[k].server

----------------------------------------------------------------------------
(* POST /dxf: where the converted profile is written *)

\* Identifiers and names a request can carry: none, a plain one, and ones
\* with path separators and dot segments.
IdFields ==
  { <<>>, <<"k">>, <<".", ".", "/", "x">>, <<".", ".">>, <<".", "/", "k">>,
    <<".", ".", "/", ".", ".", "/", "e">> }
NameFields == { <<>>, <<"b">>, <<".", ".", "/", "Y">> }
UploadNames == { <<"a", ".", "d", "x", "f">>, <<".", ".", "/", "z", ".", "d", "x", "f">> }

\* A drawing of one line, a closed triangle, and a text without entities.
IdTexts ==
  { DxfText(Undefined, <<LineEntity(0, 0, K(2), K(1))>>),
    DxfText(Undefined, <<PolylineEntity(Triangle.verts, TRUE)>>),
    DxfText(Undefined, <<>>) }

IdForms ==
  {Form([name |-> n, id |-> i, file |-> f], "", t) :
     n \in NameFields, i \in IdFields, f \in UploadNames, t \in IdTexts}
    \cup {[file |-> Undefined, name |-> <<"b">>, id |-> <<".", ".", "/", "x">>, rotate |-> ""]}

\* One request on an empty store.
InitIds ==
  /\ reqs \in {<<NewRequest(f)>> : f \in IdForms}
  /\ store = {}
  /\ dirMade = FALSE
  /\ FrameIdle
  /\ ChainIdle
  /\ UnitsIdle
  /\ LoaderIdle
  /\ SelectorIdle
  /\ ArcIdle

SpecIds == InitIds /\ [][NextRoute]_vars

\* C29: whatever identifier the request supplies, in the id field or through
\* the slug of the name, every file the handler writes lies directly in
\* data/profiles and is named <id>.json.
C29_WritesInsideProfilesDir ==
  \A file \in store :
    /\ Len(file.path) = Len(profilesDir) + 1
    /\ SubSeq(file.path, 1, Len(profilesDir)) = profilesDir
    /\ \E r \in 1..Len(reqs) :
         /\ reqs[r].profile.def
         /\ fileName(file) = reqs[r].profile.v.id \o DotJson

====
